---------------------------- MODULE Spec2Model ----------------------------
(***************************************************************************)
(* A model of austin-python's MOJO codec (austin/format/mojo.py) and of    *)
(* its hierarchical statistics aggregator (austin/stats.py).               *)
(*                                                                         *)
(* Conventions.  A Python str is the sequence of its (ASCII, non-NUL)      *)
(* byte values, a bytes object is a sequence of numbers in 0..255, an      *)
(* Optional value is None (the empty tuple) or Some(v) (a 1-tuple), and a  *)
(* dict is a function whose DOMAIN is the set of its keys.                 *)
(***************************************************************************)
EXTENDS Integers, Sequences, FiniteSets, TLC

VARIABLES
    \* ---- the byte source and BaseMojoStreamReader's fields
    mojo,           \* the bytes of the source (io.BytesIO buffer)
    mojo_pos,       \* the source's read position
    mojo_version,   \* reader.mojo_version (None until the header is parsed)
    frame_map,      \* reader._frame_map   : <<pid, key>> -> MojoFrame
    string_map,     \* reader._string_map  : <<pid, key>> -> str
    offset,         \* reader._offset
    last_read,      \* reader._last_read
    running,        \* reader._running_sample (None or Some(record))
    metadata,       \* reader.metadata : str -> str
    samples,        \* reader.samples
    intr,           \* the state of the reader's int_reader generator
    strr,           \* the state of the reader's str_reader generator
    \* ---- the consumer of the reader's iterator
    r_pc,           \* "build" | "new" | "events" | "done" | "error"
    r_err,          \* the exception that ended the iteration (None if none)
    yielded,        \* the events __iter__ has yielded, in order
    y_pos,          \* for each yielded event, where its bytes start (at) and end
    s_pos,          \* for each entry of samples, where its bytes start and end
    run_pos,        \* the offset of the Stack tag that opened the running sample
    run_end,        \* the offset just after the last tag applied to the running sample
    last_ev,        \* what the last parse_event call did
    \* ---- the read_int harness of test_mojo_varint
    vi_in,          \* the integers, or the strings, whose encodings were put in the source
    vi_out,         \* the values read_int, or read_string, has returned
    \* ---- what the producer of the raw source has put in it
    fed,            \* the raw events appended, each with its offset
    \* ---- BaseMojoStreamWriter's fields
    w_strings,      \* writer._strings : str -> MojoString
    w_frames,       \* writer._frames  : AustinFrame -> MojoFrame
    w_meta,         \* writer._meta    : str -> str
    w_mode,         \* writer._mode (None or Some(str))
    w_gc,           \* writer._gc
    w_new_entries,  \* writer._new_entries
    written,        \* the events passed to write, in order
    w_out,          \* the MOJO events passed to mojo.write, in order
    \* ---- AustinStats and the threads that call its update
    processes,      \* stats.processes : pid -> ProcessStats
    st_updates,     \* the samples of the update calls that have ended, in order
    st_exc,         \* the exception the last update call raised ("" if none)
    lock,           \* stats._lock : None, or Some(the thread that holds it)
    t_pc,           \* for each thread, where it stands in update
    t_todo,         \* for each thread, the samples it has passed to update, in order
    t_loc,          \* for each thread, the local variables of its update call
    \* ---- the code that calls the library
    c_call,         \* the call made: None, or Some([op, args])
    c_ret,          \* what the call returned or raised: None, or Some(result)
    st_copy,        \* copy.deepcopy(stats) as a reporter took it: None, or Some(processes)
    a_state,        \* BaseAustin._state
    a_meta,         \* BaseAustin._meta
    a_cbs,          \* which optional callbacks the wrapper was given
    a_pc,           \* where the wrapper stands in start and wait / _run
    a_pos,          \* how many of the yielded events the consumer has taken
    a_exc,          \* the exception that left start or wait, "" if none
    a_calls,        \* the callback invocations so far, each with the state then
    a_hist,         \* the values _state has been assigned, in order
    a_iters         \* Len(yielded) at each __iter__ call on the reader

readerVars == <<mojo, mojo_pos, mojo_version, frame_map, string_map, offset,
                last_read, running, metadata, samples, intr, strr, r_pc,
                r_err, yielded, y_pos, s_pos, run_pos, run_end, last_ev>>
varintVars == <<vi_in, vi_out>>
writerVars == <<w_strings, w_frames, w_meta, w_mode, w_gc, w_new_entries, written,
                w_out>>
statsVars == <<processes, st_updates, st_exc, lock, t_pc, t_todo, t_loc>>
callerVars == <<c_call, c_ret, st_copy>>
austinVars == <<a_state, a_meta, a_cbs, a_pc, a_pos, a_exc, a_calls, a_hist,
                a_iters>>
vars == <<readerVars, varintVars, fed, writerVars, statsVars, callerVars, austinVars>>

-----------------------------------------------------------------------------
(* Generic helpers *)

None == <<>>
Some(x) == <<x>>

\* Python's `x or 0` for an Optional[int]
OrZero(o) == IF o = None THEN 0 ELSE o[1]

EmptyMap == [x \in {} |-> 0]
Put(m, k, v) == [x \in (DOMAIN m) \cup {k} |-> IF x = k THEN v ELSE m[x]]

Abs(n) == IF n < 0 THEN -n ELSE n

-----------------------------------------------------------------------------
(* The varint codec *)

RECURSIVE ToVarintRestPadded(_)
\* a faulty variant of ToVarintRest: the last byte that carries magnitude
\* has its continuation bit set and a zero byte follows it
ToVarintRestPadded(n) ==
    IF n = 0 THEN <<>>
    ELSE IF n \div 128 = 0 THEN <<(n % 128) + 128, 0>>
    ELSE <<(n % 128) + 128>> \o ToVarintRestPadded(n \div 128)

RECURSIVE ToVarintRest(_)
\* the `while n:` loop of to_varint: 7 magnitude bits per byte
ToVarintRest(n) ==
    IF n = 0 THEN <<>>
    ELSE LET b == n % 128
             r == n \div 128
         IN  <<IF r # 0 THEN b + 128 ELSE b>> \o ToVarintRest(r)

\* a faulty variant of ToVarintFirst: the sign bit is never set
ToVarintFirstNoSign(n) ==
    LET m == Abs(n)
    IN  (m % 64) + (IF m \div 64 # 0 THEN 128 ELSE 0)

\* the first byte of to_varint: sign bit 0x40, 6 magnitude bits, continuation 0x80
ToVarintFirst(n) ==
    LET m == Abs(n)
    IN  (IF n < 0 THEN 64 ELSE 0) + (m % 64) + (IF m \div 64 # 0 THEN 128 ELSE 0)

ToVarint(n) == <<ToVarintFirst(n)>> \o ToVarintRest(Abs(n) \div 64)

\* int_reader suspended at a yield: waiting for the first byte of an integer
\* (mid = FALSE; n, s and sign are dead) or inside the continuation loop
IntReaderFresh == [mid |-> FALSE, n |-> 0, s |-> 0, sign |-> 0]

\* int_reader.send(bytes([b])): the new generator state and the value yielded
IntReaderSend(st, b) ==
    LET n0    == IF ~st.mid THEN b % 64
                 ELSE IF b % 128 = 0 THEN st.n
                 ELSE st.n + (b % 128) * (2 ^ st.s)
        s0    == IF st.mid THEN st.s + 7 ELSE 6
        sign0 == IF st.mid THEN st.sign ELSE ((b \div 64) % 2) * 64
    IN  IF b \div 128 = 1
        THEN [st |-> [mid |-> TRUE, n |-> n0, s |-> s0, sign |-> sign0],
              out |-> None]
        ELSE [st |-> IntReaderFresh,
              out |-> Some(IF sign0 # 0 THEN -n0 ELSE n0)]

\* the size of str_reader's buffer
StrBufLen == 1024

\* str_reader suspended at a yield: the bytes buffer[:i], or dead after the
\* IndexError of buffer[i] = b
StrReaderFresh == [buf |-> <<>>, dead |-> FALSE]

\* a faulty variant of StrReaderSend: a byte that does not fit the buffer is
\* dropped
StrReaderSendTruncating(st, b) ==
    IF st.dead THEN [st |-> st, out |-> None, exc |-> "StopIteration"]
    ELSE IF b = 0 THEN [st |-> StrReaderFresh, out |-> Some(st.buf), exc |-> ""]
    ELSE IF Len(st.buf) >= StrBufLen THEN [st |-> st, out |-> None, exc |-> ""]
    ELSE [st |-> [st EXCEPT !.buf = Append(@, b)], out |-> None, exc |-> ""]

\* str_reader.send(bytes([b])): new state, value yielded, exception raised
StrReaderSend(st, b) ==
    IF st.dead THEN [st |-> st, out |-> None, exc |-> "StopIteration"]
    ELSE IF b = 0 THEN [st |-> StrReaderFresh, out |-> Some(st.buf), exc |-> ""]
    ELSE IF Len(st.buf) >= StrBufLen
         THEN [st |-> [st EXCEPT !.dead = TRUE], out |-> None, exc |-> "IndexError"]
    ELSE [st |-> [st EXCEPT !.buf = Append(@, b)], out |-> None, exc |-> ""]

-----------------------------------------------------------------------------
(* Reading from the source *)

Min(a, b) == IF a < b THEN a ELSE b

\* The reader's position in the source and its generators, threaded through
\* the reads of one handler; exc names the exception a read raised ("" if none)
Cur == [pos |-> mojo_pos, offset |-> offset, last_read |-> last_read,
        intr |-> intr, strr |-> strr, exc |-> ""]

\* MojoStreamReader.read(n) = _read(mojo.read(n), n): a short read raises
\* ValueError after the source has handed out what it had
ReadN(c, n) ==
    LET avail == Min(n, Len(mojo) - c.pos)
    IN  IF avail # n
        THEN [c EXCEPT !.pos = @ + avail, !.exc = "ValueError"]
        ELSE [c EXCEPT !.pos = @ + n, !.offset = @ + c.last_read, !.last_read = n]

\* the bytes a successful ReadN(c, n) returned
Got(c, n) == SubSeq(mojo, c.pos + 1, c.pos + n)

RECURSIVE ReadInt(_)
\* MojoStreamReader.read_int: one byte at a time into int_reader until it
\* yields a value
ReadInt(c) ==
    LET c1 == ReadN(c, 1)
    IN  IF c1.exc # "" THEN [c |-> c1, val |-> None]
        ELSE LET r  == IntReaderSend(c1.intr, mojo[c1.pos])
                 c2 == [c1 EXCEPT !.intr = r.st]
             IN  IF r.out # None THEN [c |-> c2, val |-> r.out]
                 ELSE ReadInt(c2)

RECURSIVE ReadString(_)
\* MojoStreamReader.read_string: one byte at a time into str_reader until it
\* yields a string
ReadString(c) ==
    LET c1 == ReadN(c, 1)
    IN  IF c1.exc # "" THEN [c |-> c1, val |-> None]
        ELSE LET r  == StrReaderSend(c1.strr, mojo[c1.pos])
                 c2 == [c1 EXCEPT !.strr = r.st, !.exc = r.exc]
             IN  IF r.exc # "" \/ r.out # None THEN [c |-> c2, val |-> r.out]
                 ELSE ReadString(c2)

RECURSIVE ReadFields(_, _, _)
\* the reads a handler makes before it calls get_*: kinds is a sequence of
\* "int" and "str"; reading stops at the first exception
ReadFields(c, kinds, vals) ==
    LET Next(r) == IF r.c.exc # "" THEN [c |-> r.c, vals |-> vals]
                   ELSE ReadFields(r.c, Tail(kinds), Append(vals, r.val[1]))
    IN  IF kinds = <<>> THEN [c |-> c, vals |-> vals]
        ELSE Next(IF Head(kinds) = "int" THEN ReadInt(c) ELSE ReadString(c))


-----------------------------------------------------------------------------
(* BaseMojoStreamReader: the get_* methods *)

\* MojoEvents
METADATA == 1
STACK == 2
FRAME == 3
FRAME_INVALID == 4
FRAME_REF == 5
FRAME_KERNEL == 6
GC == 7
IDLE == 8
METRIC_TIME == 9
METRIC_MEMORY == 10
STRING_DEF == 11
STRING_REF == 12

\* "<unknown>"
UnknownStr == <<60, 117, 110, 107, 110, 111, 119, 110, 62>>
\* EMPTY = MojoString(0, ""), UNKNOWN = MojoString(1, "<unknown>")
EMPTY == [key |-> 0, value |-> <<>>]
UNKNOWN == [key |-> 1, value |-> UnknownStr]

\* The reader's mutable fields (and the bookkeeping that goes with them),
\* threaded through one parse_event call.  exc names the exception the call
\* raised ("" if none), ev the class of the event it returned, res the
\* MojoString or MojoFrame that the event registered or resolved.
Rd == [c |-> Cur, version |-> mojo_version, fm |-> frame_map,
       sm |-> string_map, run |-> running, md |-> metadata, smp |-> samples,
       spos |-> s_pos, rpos |-> run_pos, rend |-> run_end,
       exc |-> "", ev |-> "none", key |-> None, at |-> 0, tag |-> 0,
       mev |-> None, res |-> None]

\* AustinFrame(filename=mf.filename.value, function=mf.scope.value, ...)
AustinFrameOf(mf) ==
    [filename |-> mf.filename.value, function |-> mf.scope.value,
     line |-> mf.line, line_end |-> mf.line_end, column |-> mf.column,
     column_end |-> mf.column_end]

\* the AustinSample that _finalize_sample builds from the running sample
AustinSampleOf(rs) ==
    [type |-> "Sample", pid |-> rs.pid, iid |-> rs.iid, thread |-> rs.thread,
     metrics |-> rs.metrics,
     frames |-> IF rs.frames # <<>>
                THEN Some([i \in 1..Len(rs.frames) |-> AustinFrameOf(rs.frames[i])])
                ELSE None,
     gc |-> rs.gc, idle |-> rs.idle]

\* a faulty variant of FinalizeSample: the running sample is not reset
FinalizeSampleKeep(r) ==
    [r EXCEPT !.smp = Append(@, AustinSampleOf(r.run[1])),
              !.spos = Append(@, [at |-> r.rpos, end |-> r.rend])]

\* BaseMojoStreamReader._finalize_sample (the caller has checked the assert)
FinalizeSample(r) ==
    [r EXCEPT !.smp = Append(@, AustinSampleOf(r.run[1])),
              !.spos = Append(@, [at |-> r.rpos, end |-> r.rend]),
              !.run = None]

\* _RunningSample(pid=pid, iid=iid, thread=thread)
NewRunningSample(pid, iid, thread) ==
    [pid |-> pid, thread |-> thread, iid |-> iid, frames |-> <<>>,
     metrics |-> [time |-> None, memory |-> None], gc |-> None, idle |-> None]

\* BaseMojoStreamReader.get_stack
GetStack(r, pid, iid, thread) ==
    LET r1 == IF r.run # None THEN FinalizeSample(r) ELSE r
    IN  [r1 EXCEPT !.run = Some(NewRunningSample(pid, iid, thread)),
                   !.rpos = r.at, !.rend = r.c.pos, !.ev = "Stack"]

\* a faulty variant of Ref: the key is not combined with the pid
RefAnyPid(r, n) == <<0, n>>

\* BaseMojoStreamReader.ref
Ref(r, n) == <<r.run[1].pid, n>>

\* BaseMojoStreamReader._lookup_string: the string, or the exception raised
LookupString(r, index) ==
    IF index = 1 THEN [exc |-> "", val |-> UNKNOWN]
    ELSE IF r.run = None THEN [exc |-> "AssertionError", val |-> EMPTY]
    ELSE IF Ref(r, index) \notin DOMAIN r.sm THEN [exc |-> "KeyError", val |-> EMPTY]
    ELSE [exc |-> "", val |-> r.sm[Ref(r, index)]]

\* BaseMojoStreamReader.get_frame
GetFrame(r, key, filename_index, scope_index, line, line_end, column, column_end) ==
    LET filename == LookupString(r, filename_index)
        scope    == LookupString(r, scope_index)
        frame    == [key |-> key, filename |-> filename.val, scope |-> scope.val,
                     line |-> line, line_end |-> line_end, column |-> column,
                     column_end |-> column_end]
    IN  IF filename.exc # ""
        THEN [r EXCEPT !.exc = filename.exc, !.key = Some(<<"string", filename_index>>)]
        ELSE IF scope.exc # ""
        THEN [r EXCEPT !.exc = scope.exc, !.key = Some(<<"string", scope_index>>)]
        ELSE IF r.run = None THEN [r EXCEPT !.exc = "AssertionError"]
        ELSE [r EXCEPT !.fm = Put(@, Ref(r, key), frame), !.ev = "Frame",
                      !.res = Some(frame)]

\* BaseMojoStreamReader.get_frame_ref
GetFrameRef(r, ref) ==
    IF r.run = None THEN [r EXCEPT !.exc = "AssertionError"]
    ELSE IF Ref(r, ref) \notin DOMAIN r.fm
    THEN [r EXCEPT !.exc = "KeyError", !.key = Some(<<"frame", ref>>)]
    ELSE [r EXCEPT !.run[1].frames = Append(@, r.fm[Ref(r, ref)]),
                   !.rend = r.c.pos, !.ev = "FrameRef",
                   !.res = Some(r.fm[Ref(r, ref)])]

\* BaseMojoStreamReader._get_metric (metric_type is "time" or "memory")
GetMetric(r, metric_type, value) ==
    IF r.run = None THEN [r EXCEPT !.exc = "AssertionError"]
    ELSE [r EXCEPT !.run[1].metrics[metric_type] = Some(value),
                   !.rend = r.c.pos, !.ev = "Metric"]

\* BaseMojoStreamReader.get_idle
GetIdle(r) ==
    IF r.run = None THEN [r EXCEPT !.exc = "AssertionError"]
    ELSE [r EXCEPT !.run[1].idle = Some(TRUE), !.rend = r.c.pos, !.ev = "Idle"]

\* BaseMojoStreamReader.get_gc
GetGc(r) ==
    IF r.run = None THEN [r EXCEPT !.exc = "AssertionError"]
    ELSE [r EXCEPT !.run[1].gc = Some(TRUE), !.rend = r.c.pos, !.ev = "GC"]

\* a faulty variant of GetString: a key that is registered keeps its string
GetStringKeepFirst(r, key, value) ==
    IF r.run = None THEN [r EXCEPT !.exc = "AssertionError"]
    ELSE IF Ref(r, key) \in DOMAIN r.sm
    THEN [r EXCEPT !.ev = "String", !.res = Some(r.sm[Ref(r, key)])]
    ELSE [r EXCEPT !.sm = Put(@, Ref(r, key), [key |-> key, value |-> value]),
                   !.ev = "String", !.res = Some([key |-> key, value |-> value])]

\* a faulty variant of GetString: without a running sample the string is
\* registered under pid 0
GetStringDefaultPid(r, key, value) ==
    [r EXCEPT !.sm = Put(@, <<IF r.run = None THEN 0 ELSE r.run[1].pid, key>>,
                         [key |-> key, value |-> value]),
              !.ev = "String", !.res = Some([key |-> key, value |-> value])]

\* BaseMojoStreamReader.get_string
GetString(r, key, value) ==
    IF r.run = None THEN [r EXCEPT !.exc = "AssertionError"]
    ELSE [r EXCEPT !.sm = Put(@, Ref(r, key), [key |-> key, value |-> value]),
                   !.ev = "String", !.res = Some([key |-> key, value |-> value])]

\* BaseMojoStreamReader.get_string_ref
GetStringRef(r, key) ==
    IF r.run = None THEN [r EXCEPT !.exc = "AssertionError"]
    ELSE IF Ref(r, key) \notin DOMAIN r.sm
    THEN [r EXCEPT !.exc = "KeyError", !.key = Some(<<"string", key>>)]
    ELSE [r EXCEPT !.ev = "StringRef", !.res = Some(r.sm[Ref(r, key)])]

\* BaseMojoStreamReader.get_metadata
GetMetadata(r, name, value) ==
    [r EXCEPT !.md = Put(@, name, value), !.ev = "Metadata",
              !.mev = Some([key |-> name, value |-> value])]

-----------------------------------------------------------------------------
(* MojoStreamReader: the tag handlers and parse_event *)

\* a faulty variant of Raise: a failed read ends the handler as the end of the
\* stream does
RaiseAsEnd(r, c) == [r EXCEPT !.c = [c EXCEPT !.exc = ""], !.ev = "eof"]

\* an exception raised by a read leaves the handler before get_* is called
Raise(r, c) == [r EXCEPT !.c = c, !.exc = c.exc]

Ints(n) == [i \in 1..n |-> "int"]

\* MojoStreamReader.parse_metadata
ParseMetadata(r) ==
    LET Get(rd) == IF rd.c.exc # "" THEN Raise(r, rd.c)
                   ELSE GetMetadata([r EXCEPT !.c = rd.c], rd.vals[1], rd.vals[2])
    IN  Get(ReadFields(r.c, <<"str", "str">>, <<>>))

\* a faulty variant of ParseStack: the interpreter id is read whatever the
\* version
ParseStackAlwaysIid(r) ==
    LET Get(rd) ==
            IF rd.c.exc # "" THEN Raise(r, rd.c)
            ELSE GetStack([r EXCEPT !.c = rd.c], rd.vals[1], Some(rd.vals[2]),
                          rd.vals[3])
    IN  Get(ReadFields(r.c, <<"int", "int", "str">>, <<>>))

\* a faulty variant of ParseStack: the Stack event does not touch the samples
ParseStackNoFinalize(r) ==
    LET v3 == r.version[1] >= 3
        Get(rd) ==
            IF rd.c.exc # "" THEN Raise(r, rd.c)
            ELSE [r EXCEPT !.c = rd.c, !.rpos = r.at, !.rend = rd.c.pos,
                           !.ev = "Stack",
                           !.run = Some(NewRunningSample(rd.vals[1],
                                       IF v3 THEN Some(rd.vals[2]) ELSE None,
                                       rd.vals[Len(rd.vals)]))]
    IN  Get(ReadFields(r.c, IF v3 THEN <<"int", "int", "str">>
                                  ELSE <<"int", "str">>, <<>>))

\* MojoStreamReader.parse_stack
ParseStack(r) ==
    LET v3 == r.version[1] >= 3
        Get(rd) ==
            IF rd.c.exc # "" THEN Raise(r, rd.c)
            ELSE GetStack([r EXCEPT !.c = rd.c], rd.vals[1],
                          IF v3 THEN Some(rd.vals[2]) ELSE None,
                          rd.vals[Len(rd.vals)])
    IN  Get(ReadFields(r.c, IF v3 THEN <<"int", "int", "str">>
                                  ELSE <<"int", "str">>, <<>>))

\* a faulty variant of ParseFrame: the three extra fields are read whatever
\* the version
ParseFrameAllFields(r) ==
    LET Get(c, v) ==
            IF c.exc # "" THEN Raise(r, c)
            ELSE GetFrame([r EXCEPT !.c = c], v[1], v[2], v[3], v[4],
                          Some(v[5]), Some(v[6]), Some(v[7]))
        Go(rd) == Get(rd.c, rd.vals)
    IN  Go(ReadFields(r.c, Ints(7), <<>>))

\* MojoStreamReader.parse_frame
ParseFrame(r) ==
    LET v1 == r.version[1] = 1
        Get(c, v) ==
            IF c.exc # "" THEN Raise(r, c)
            ELSE GetFrame([r EXCEPT !.c = c], v[1], v[2], v[3], v[4],
                          IF v1 THEN None ELSE Some(v[5]),
                          IF v1 THEN None ELSE Some(v[6]),
                          IF v1 THEN None ELSE Some(v[7]))
        Go(rd) == Get(rd.c, rd.vals)
    IN  Go(ReadFields(r.c, IF v1 THEN Ints(4) ELSE Ints(7), <<>>))

\* MojoStreamReader.parse_frame_ref
ParseFrameRef(r) ==
    LET Get(rd) == IF rd.c.exc # "" THEN Raise(r, rd.c)
                   ELSE GetFrameRef([r EXCEPT !.c = rd.c], rd.vals[1])
    IN  Get(ReadFields(r.c, <<"int">>, <<>>))

\* a faulty variant of ParseKernelFrame: the kernel frame is appended to the
\* frames of the running sample
ParseKernelFrameAppends(r) ==
    LET Get(rd) ==
            IF rd.c.exc # "" THEN Raise(r, rd.c)
            ELSE IF r.run = None THEN [r EXCEPT !.c = rd.c, !.ev = "KernelFrame"]
            ELSE [r EXCEPT !.c = rd.c, !.ev = "KernelFrame",
                           !.run[1].frames =
                               Append(@, [key |-> 0, filename |-> UNKNOWN,
                                          scope |-> [key |-> 0, value |-> rd.vals[1]],
                                          line |-> 0, line_end |-> None,
                                          column |-> None, column_end |-> None])]
    IN  Get(ReadFields(r.c, <<"str">>, <<>>))

\* MojoStreamReader.parse_kernel_frame / get_kernel_frame
ParseKernelFrame(r) ==
    LET Get(rd) == IF rd.c.exc # "" THEN Raise(r, rd.c)
                   ELSE [r EXCEPT !.c = rd.c, !.ev = "KernelFrame"]
    IN  Get(ReadFields(r.c, <<"str">>, <<>>))

\* MojoStreamReader._parse_metric
ParseMetric(r, metric_type) ==
    LET Get(rd) == IF rd.c.exc # "" THEN Raise(r, rd.c)
                   ELSE GetMetric([r EXCEPT !.c = rd.c], metric_type, rd.vals[1])
    IN  Get(ReadFields(r.c, <<"int">>, <<>>))

\* MojoStreamReader.parse_invalid_frame / get_invalid_frame
ParseInvalidFrame(r) == [r EXCEPT !.ev = "InvalidFrame"]

\* MojoStreamReader.parse_string
ParseString(r) ==
    LET Get(rd) == IF rd.c.exc # "" THEN Raise(r, rd.c)
                   ELSE GetString([r EXCEPT !.c = rd.c], rd.vals[1], rd.vals[2])
    IN  Get(ReadFields(r.c, <<"int", "str">>, <<>>))

\* MojoStreamReader.parse_string_ref
ParseStringRef(r) ==
    LET Get(rd) == IF rd.c.exc # "" THEN Raise(r, rd.c)
                   ELSE GetStringRef([r EXCEPT !.c = rd.c], rd.vals[1])
    IN  Get(ReadFields(r.c, <<"int">>, <<>>))

\* the keys of __handlers__: the tags of the methods decorated with @handles
HandlerTags == {METADATA, STACK, FRAME, FRAME_INVALID, FRAME_REF, FRAME_KERNEL,
                GC, IDLE, METRIC_TIME, METRIC_MEMORY, STRING_DEF, STRING_REF}

\* __handlers__[event_id](self)
Dispatch(r, tag) ==
    CASE tag = METADATA      -> ParseMetadata(r)
      [] tag = STACK         -> ParseStack(r)
      [] tag = FRAME         -> ParseFrame(r)
      [] tag = FRAME_INVALID -> ParseInvalidFrame(r)
      [] tag = FRAME_REF     -> ParseFrameRef(r)
      [] tag = FRAME_KERNEL  -> ParseKernelFrame(r)
      [] tag = GC            -> GetGc(r)
      [] tag = IDLE          -> GetIdle(r)
      [] tag = METRIC_TIME   -> ParseMetric(r, "time")
      [] tag = METRIC_MEMORY -> ParseMetric(r, "memory")
      [] tag = STRING_DEF    -> ParseString(r)
      [] tag = STRING_REF    -> ParseStringRef(r)

\* a faulty variant of ParseEventResult: a tag without a handler is skipped
ParseEventResultSkip(r0) ==
    LET c1 == ReadN(r0.c, 1)
    IN  IF c1.exc # "" THEN [r0 EXCEPT !.c = [c1 EXCEPT !.exc = ""], !.ev = "eof"]
        ELSE LET tag == mojo[c1.pos]
                 r1  == [r0 EXCEPT !.c = c1, !.at = c1.pos - 1, !.tag = tag]
             IN  IF tag \notin HandlerTags
                 THEN [r1 EXCEPT !.ev = "InvalidFrame"]
                 ELSE Dispatch(r1, tag)

\* MojoStreamReader.parse_event up to its except clauses: ev = "eof" when the
\* tag read fails (parse_event returns None), ev = "unhandled" when the tag
\* has no handler (the KeyError of the __handlers__ lookup)
ParseEventResult(r0) ==
    LET c1 == ReadN(r0.c, 1)
    IN  IF c1.exc # "" THEN [r0 EXCEPT !.c = [c1 EXCEPT !.exc = ""], !.ev = "eof"]
        ELSE LET tag == mojo[c1.pos]
                 r1  == [r0 EXCEPT !.c = c1, !.at = c1.pos - 1, !.tag = tag]
             IN  IF tag \notin HandlerTags
                 THEN [r1 EXCEPT !.exc = "KeyError", !.ev = "unhandled"]
                 ELSE Dispatch(r1, tag)

\* the exception parse_event raises for a failed handler call: KeyError is
\* reported as ValueError("Unhandled event ..."), anything else as
\* MojoParseError("Invalid byte sequence ...")
ParseEventError(r) ==
    [exc       |-> IF r.exc = "KeyError" THEN "ValueError" ELSE "MojoParseError",
     msg       |-> IF r.exc = "KeyError" THEN "Unhandled event"
                                         ELSE "Invalid byte sequence",
     cause     |-> r.exc,
     event_id  |-> r.tag,
     offset    |-> r.c.offset,
     last_read |-> r.c.last_read]

\* the ValueError of _read and of the header check, raised outside parse_event
PlainError(msg, c) ==
    [exc |-> "ValueError", msg |-> msg, cause |-> "", event_id |-> 0,
     offset |-> c.offset, last_read |-> c.last_read]

\* b"MOJ"
MOJ == <<77, 79, 74>>

-----------------------------------------------------------------------------
(* MojoEvent.to_bytes *)

\* str.encode() followed by the terminator
StrBytes(str) == str \o <<0>>

\* MojoMetadata(key, value).to_bytes()
MetadataBytes(key, value) == <<METADATA>> \o StrBytes(key) \o StrBytes(value)

\* MojoStack(pid, iid, tid).to_bytes()
StackBytes(pid, iid, tid) ==
    <<STACK>> \o ToVarint(pid) \o ToVarint(iid) \o StrBytes(tid)

\* MojoString(key, value).to_bytes()
StringBytes(ms) == <<STRING_DEF>> \o ToVarint(ms.key) \o StrBytes(ms.value)

\* MojoFrame(...).to_bytes(): the strings go out as their keys
FrameBytes(mf) ==
    <<FRAME>> \o ToVarint(mf.key) \o ToVarint(mf.filename.key)
        \o ToVarint(mf.scope.key) \o ToVarint(mf.line) \o ToVarint(mf.line_end)
        \o ToVarint(mf.column) \o ToVarint(mf.column_end)

\* MojoFrameReference(frame).to_bytes(): the frame goes out as its key
FrameRefBytes(mf) == <<FRAME_REF>> \o ToVarint(mf.key)

\* MojoMetric(metric_type, value).to_bytes()
MetricBytes(metric_type, value) ==
    <<IF metric_type = "time" THEN METRIC_TIME ELSE METRIC_MEMORY>> \o ToVarint(value)

\* to_bytes of an entry of _new_entries (a MojoString or a MojoFrame)
EntryBytes(e) == IF "line" \in DOMAIN e THEN FrameBytes(e) ELSE StringBytes(e)

-----------------------------------------------------------------------------
(* BaseMojoStreamWriter and MojoStreamWriter *)

\* BaseMojoStreamWriter.HEADER
HEADER == MOJ \o <<3>>

\* "mode", "gc", "on", "full", "memory", "wall"
StrMode == <<109, 111, 100, 101>>
StrGc == <<103, 99>>
StrOn == <<111, 110>>
StrFull == <<102, 117, 108, 108>>
StrMemory == <<109, 101, 109, 111, 114, 121>>
StrWall == <<119, 97, 108, 108>>

\* the writer's interning state, threaded through the resolve_* calls of one
\* write
Wr == [strings |-> w_strings, frames |-> w_frames, new |-> w_new_entries]

\* a faulty variant of ResolveString: a string that is in the table is queued
\* again
ResolveStringQueuedAgain(w, value) ==
    IF value \in DOMAIN w.strings
    THEN [w |-> [w EXCEPT !.new = Append(@, w.strings[value])],
          ms |-> w.strings[value]]
    ELSE LET ms == [key |-> Cardinality(DOMAIN w.strings), value |-> value]
         IN  [w |-> [w EXCEPT !.strings = Put(@, value, ms), !.new = Append(@, ms)],
              ms |-> ms]

\* a faulty variant of ResolveString: the keys of the new strings count from 0
ResolveStringFromZero(w, value) ==
    IF value \in DOMAIN w.strings THEN [w |-> w, ms |-> w.strings[value]]
    ELSE LET ms == [key |-> Cardinality(DOMAIN w.strings) - 2, value |-> value]
         IN  [w |-> [w EXCEPT !.strings = Put(@, value, ms), !.new = Append(@, ms)],
              ms |-> ms]

\* BaseMojoStreamWriter.resolve_string: the state after the call and the
\* MojoString returned
ResolveString(w, value) ==
    IF value \in DOMAIN w.strings THEN [w |-> w, ms |-> w.strings[value]]
    ELSE LET ms == [key |-> Cardinality(DOMAIN w.strings), value |-> value]
         IN  [w |-> [w EXCEPT !.strings = Put(@, value, ms), !.new = Append(@, ms)],
              ms |-> ms]

\* a faulty variant of ResolveFrame: the new frame is queued before its
\* strings are resolved
ResolveFrameQueuedFirst(w, frame) ==
    IF frame \in DOMAIN w.frames THEN [w |-> w, mf |-> w.frames[frame]]
    ELSE LET key == Cardinality(DOMAIN w.frames)
             fn  == ResolveString(w, frame.filename)
             sc  == ResolveString(fn.w, frame.function)
             mf  == [key |-> key, filename |-> fn.ms, scope |-> sc.ms,
                     line |-> frame.line, line_end |-> OrZero(frame.line_end),
                     column |-> OrZero(frame.column),
                     column_end |-> OrZero(frame.column_end)]
         IN  [w |-> [sc.w EXCEPT !.frames = Put(@, frame, mf),
                                 !.new = <<mf>> \o @],
              mf |-> mf]

\* BaseMojoStreamWriter.resolve_frame: the state after the call and the
\* MojoFrame returned
ResolveFrame(w, frame) ==
    IF frame \in DOMAIN w.frames THEN [w |-> w, mf |-> w.frames[frame]]
    ELSE LET key == Cardinality(DOMAIN w.frames)
             fn  == ResolveString(w, frame.filename)
             sc  == ResolveString(fn.w, frame.function)
             mf  == [key |-> key, filename |-> fn.ms, scope |-> sc.ms,
                     line |-> frame.line, line_end |-> OrZero(frame.line_end),
                     column |-> OrZero(frame.column),
                     column_end |-> OrZero(frame.column_end)]
         IN  [w |-> [sc.w EXCEPT !.frames = Put(@, frame, mf), !.new = Append(@, mf)],
              mf |-> mf]

RECURSIVE ResolveFrames(_, _, _)
\* [self.resolve_frame(f) for f in event.frames]
ResolveFrames(w, frames, acc) ==
    IF frames = <<>> THEN [w |-> w, mfs |-> acc]
    ELSE LET r == ResolveFrame(w, Head(frames))
         IN  ResolveFrames(r.w, Tail(frames), Append(acc, r.mf))

RECURSIVE Concat(_)
\* the concatenation of a sequence of byte strings
Concat(ss) == IF ss = <<>> THEN <<>> ELSE Head(ss) \o Concat(Tail(ss))

\* MojoStreamWriter.write, the metric tags of a sample
SampleMetricBytes(event, mode) ==
    IF mode = Some(StrFull)
    THEN (IF event.idle = Some(TRUE) THEN <<IDLE>> ELSE <<>>)
         \o MetricBytes("time", OrZero(event.metrics.time))
         \o MetricBytes("memory", OrZero(event.metrics.memory))
    ELSE IF mode = Some(StrMemory)
    THEN MetricBytes("memory", OrZero(event.metrics.memory))
    ELSE MetricBytes("time", OrZero(event.metrics.time))

\* MojoStreamWriter.write, the bytes written for a sample: the Stack event,
\* the new entries, the frame references, the GC tag, the metrics
SampleBytes(event, new, mfs, gc, mode) ==
    StackBytes(event.pid, OrZero(event.iid), event.thread)
    \o Concat([i \in 1..Len(new) |-> EntryBytes(new[i])])
    \o Concat([i \in 1..Len(mfs) |-> FrameRefBytes(mfs[i])])
    \o (IF gc THEN <<GC>> ELSE <<>>)
    \o SampleMetricBytes(event, mode)

\* One call of mojo.write(e.to_bytes()): the tag of the MOJO event e, its key
\* (of a String, Frame or Frame-Reference; -1 otherwise), the MojoString or
\* MojoFrame it defines, the index n of the write call that made it, and
\* its bytes
MojoOut(tag, key, obj, n, bytes) ==
    [tag |-> tag, key |-> key, obj |-> obj, n |-> n, bytes |-> bytes]

\* a faulty variant of SampleMetricEvents: the time metric alone, whatever the
\* mode
SampleMetricEventsTimeOnly(event, mode, n) ==
    <<MojoOut(METRIC_TIME, -1, None, n,
              MetricBytes("time", OrZero(event.metrics.time)))>>

\* MojoStreamWriter.write, the mojo.write calls for the metrics of a sample
SampleMetricEvents(event, mode, n) ==
    LET time   == MojoOut(METRIC_TIME, -1, None, n,
                          MetricBytes("time", OrZero(event.metrics.time)))
        memory == MojoOut(METRIC_MEMORY, -1, None, n,
                          MetricBytes("memory", OrZero(event.metrics.memory)))
    IN  IF mode = Some(StrFull)
        THEN (IF event.idle = Some(TRUE)
              THEN <<MojoOut(IDLE, -1, None, n, <<IDLE>>)>> ELSE <<>>)
             \o <<time, memory>>
        ELSE IF mode = Some(StrMemory) THEN <<memory>>
        ELSE <<time>>

\* MojoStreamWriter.write, the mojo.write calls for a sample, in order: the
\* Stack event, the new entries from the head of the queue, the frame
\* references, the GC tag, the metrics
SampleEvents(event, new, mfs, gc, mode, n) ==
    <<MojoOut(STACK, -1, None, n,
              StackBytes(event.pid, OrZero(event.iid), event.thread))>>
    \o [i \in 1..Len(new) |->
           MojoOut(IF "line" \in DOMAIN new[i] THEN FRAME ELSE STRING_DEF,
                   new[i].key, Some(new[i]), n, EntryBytes(new[i]))]
    \o [i \in 1..Len(mfs) |->
           MojoOut(FRAME_REF, mfs[i].key, None, n, FrameRefBytes(mfs[i]))]
    \o (IF gc THEN <<MojoOut(GC, -1, None, n, <<GC>>)>> ELSE <<>>)
    \o SampleMetricEvents(event, mode, n)

\* MojoStreamWriter.__init__: the tables hold EMPTY and UNKNOWN, and the
\* header has been written to the buffer
WriterInit ==
    /\ w_strings = [x \in {EMPTY.value, UNKNOWN.value} |->
                        IF x = EMPTY.value THEN EMPTY ELSE UNKNOWN]
    /\ w_frames = EmptyMap
    /\ w_meta = EmptyMap
    /\ w_mode = None
    /\ w_gc = FALSE
    /\ w_new_entries = <<>>
    /\ written = <<>>
    /\ w_out = <<>>

\* a faulty variant of WriteMetadata: _gc follows the value of the last "gc"
\* metadata
WriteMetadataGcFollows(name, value) ==
    /\ w_meta' = Put(w_meta, name, value)
    /\ w_gc' = IF name = StrGc THEN value = StrOn ELSE w_gc
    /\ w_mode' = IF ~(name = StrGc /\ value = StrOn) /\ name = StrMode
                 THEN Some(value) ELSE w_mode
    /\ mojo' = mojo \o MetadataBytes(name, value)
    /\ written' = Append(written, [type |-> "Metadata", name |-> name, value |-> value])
    /\ w_out' = Append(w_out, MojoOut(METADATA, -1, None, Len(written) + 1,
                                      MetadataBytes(name, value)))
    /\ UNCHANGED <<w_strings, w_frames, w_new_entries>>

\* MojoStreamWriter.write(AustinMetadata(name, value)), with set_metadata
WriteMetadata(name, value) ==
    /\ w_meta' = Put(w_meta, name, value)
    /\ w_gc' = IF name = StrGc /\ value = StrOn THEN TRUE ELSE w_gc
    /\ w_mode' = IF ~(name = StrGc /\ value = StrOn) /\ name = StrMode
                 THEN Some(value) ELSE w_mode
    /\ mojo' = mojo \o MetadataBytes(name, value)
    /\ written' = Append(written, [type |-> "Metadata", name |-> name, value |-> value])
    /\ w_out' = Append(w_out, MojoOut(METADATA, -1, None, Len(written) + 1,
                                      MetadataBytes(name, value)))
    /\ UNCHANGED <<w_strings, w_frames, w_new_entries>>

\* MojoStreamWriter.write(event) for an AustinSample
WriteSample(event) ==
    LET r == IF event.frames # None /\ event.frames[1] # <<>>
             THEN ResolveFrames(Wr, event.frames[1], <<>>)
             ELSE [w |-> Wr, mfs |-> <<>>]
    IN  /\ w_strings' = r.w.strings
        /\ w_frames' = r.w.frames
        /\ w_new_entries' = <<>>
        /\ mojo' = mojo \o SampleBytes(event, r.w.new, r.mfs, w_gc, w_mode)
        /\ written' = Append(written, event)
        /\ w_out' = w_out \o SampleEvents(event, r.w.new, r.mfs, w_gc, w_mode,
                                          Len(written) + 1)
        /\ UNCHANGED <<w_meta, w_mode, w_gc>>

-----------------------------------------------------------------------------
(* austin/stats.py: Metric, HierarchicalStats and AustinStats.update *)

\* Metric(type, value)
Metric(type, value) == [type |-> type, value |-> value]

\* a faulty variant of MetricAdd: the sum keeps the left operand's value
MetricAddKeep(self, other) ==
    [exc |-> IF self.type # other.type THEN "AssertionError" ELSE "",
     val |-> Metric(self.type, self.value)]

\* Metric.__add__: the assert, and the sum
MetricAdd(self, other) ==
    [exc |-> IF self.type # other.type THEN "AssertionError" ELSE "",
     val |-> Metric(self.type, self.value + other.value)]

\* Frame(function, filename, line)
Frame(function, filename, line) ==
    [function |-> function, filename |-> filename, line |-> line]

\* Sample(pid, thread, metric, frames)
Sample(pid, thread, metric, frames) ==
    [pid |-> pid, thread |-> thread, metric |-> metric, frames |-> frames]

\* ThreadStats(label, own, total, children)
ThreadStats(label, own, total, children) ==
    [label |-> label, own |-> own, total |-> total, children |-> children]

\* FrameStats(label, height, own, total, children)
FrameStats(label, height, own, total, children) ==
    [label |-> label, height |-> height, own |-> own, total |-> total,
     children |-> children]

\* ProcessStats(pid, threads)
ProcessStats(pid, threads) == [pid |-> pid, threads |-> threads]

RECURSIVE Lshift(_, _)
RECURSIVE LshiftChildren(_, _, _)

\* a faulty variant of LshiftChildren: every child of other replaces the
\* child of self with its label
LshiftChildrenAdopt(self, other, todo) ==
    [node |-> [self EXCEPT !.children =
                   [f \in (DOMAIN @) \cup todo |->
                       IF f \in todo THEN other.children[f] ELSE @[f]]],
     exc |-> ""]

\* HierarchicalStats.__lshift__, the loop over other.children for the
\* children `todo` still to merge: a child self has is merged into, a child
\* it has not is adopted; node is self as the loop leaves it, exc the
\* exception that ended it
LshiftChildren(self, other, todo) ==
    IF todo = {} THEN [node |-> self, exc |-> ""]
    ELSE LET frame == CHOOSE f \in todo : TRUE
             Merged(r) ==
                 IF r.exc # ""
                 THEN [node |-> [self EXCEPT !.children[frame] = r.node],
                       exc |-> r.exc]
                 ELSE LshiftChildren([self EXCEPT !.children[frame] = r.node],
                                     other, todo \ {frame})
         IN  IF frame \in DOMAIN self.children
             THEN Merged(Lshift(self.children[frame], other.children[frame]))
             ELSE LshiftChildren(
                      [self EXCEPT !.children = Put(@, frame, other.children[frame])],
                      other, todo \ {frame})

\* a faulty variant of Lshift: the labels are not compared
LshiftAnyLabel(self, other) ==
    LET own   == MetricAdd(self.own, other.own)
        total == MetricAdd(self.total, other.total)
    IN  IF own.exc # "" THEN [node |-> self, exc |-> own.exc]
        ELSE IF total.exc # ""
        THEN [node |-> [self EXCEPT !.own = own.val], exc |-> total.exc]
        ELSE LshiftChildren([self EXCEPT !.own = own.val, !.total = total.val],
                            other, DOMAIN other.children)

\* HierarchicalStats.__lshift__ (self << other): self after the call, and
\* the exception raised by the assert of Metric.__add__, if any
Lshift(self, other) ==
    LET own   == MetricAdd(self.own, other.own)
        total == MetricAdd(self.total, other.total)
    IN  IF self.label # other.label THEN [node |-> self, exc |-> ""]
        ELSE IF own.exc # "" THEN [node |-> self, exc |-> own.exc]
        ELSE IF total.exc # ""
        THEN [node |-> [self EXCEPT !.own = own.val], exc |-> total.exc]
        ELSE LshiftChildren([self EXCEPT !.own = own.val, !.total = total.val],
                            other, DOMAIN other.children)

RECURSIVE GetChildPath(_, _)
\* HierarchicalStats.get_child applied along a path of labels: the node
\* reached, or None where get_child raises KeyError
GetChildPath(stats, path) ==
    IF path = <<>> THEN Some(stats)
    ELSE IF Head(path) \notin DOMAIN stats.children THEN None
    ELSE GetChildPath(stats.children[Head(path)], Tail(path))

RECURSIVE FrameStatsChain(_, _, _)
\* AustinStats.update, the loop that converts sample.frames from `height` on
\* into nested FrameStats, with `stats.own = stats.total.copy()` at the last:
\* the children container of the node above
FrameStatsChain(frames, height, metric) ==
    IF height >= Len(frames) THEN EmptyMap
    ELSE Put(EmptyMap, frames[height + 1],
             FrameStats(frames[height + 1], height,
                        IF height + 1 = Len(frames) THEN metric
                        ELSE Metric(metric.type, 0),
                        metric,
                        FrameStatsChain(frames, height + 1, metric)))

\* a faulty variant of SinglePathStats: own is the metric at every node of the path
SinglePathStatsOwnAll(sample) ==
    ThreadStats(sample.thread, sample.metric, sample.metric,
                FrameStatsChain(sample.frames, 0, sample.metric))

\* AustinStats.update, up to the lock: the ThreadStats built for the sample
SinglePathStats(sample) ==
    ThreadStats(sample.thread,
                IF sample.frames = <<>> THEN sample.metric
                ELSE Metric(sample.metric.type, 0),
                sample.metric,
                FrameStatsChain(sample.frames, 0, sample.metric))

\* AustinStats.update, the block under the lock, on the processes `procs`
UpdateLocked(procs, sample, thread_stats) ==
    LET pid == sample.pid
        Merged(r) == [processes |-> [procs EXCEPT ![pid].threads[sample.thread] = r.node],
                      exc |-> r.exc]
    IN  IF pid \notin DOMAIN procs
        THEN [processes |-> Put(procs, pid,
                                ProcessStats(pid, Put(EmptyMap, sample.thread,
                                                      thread_stats))),
              exc |-> ""]
        ELSE IF sample.thread \notin DOMAIN procs[pid].threads
        THEN [processes |-> [procs EXCEPT ![pid].threads =
                                              Put(@, sample.thread, thread_stats)],
              exc |-> ""]
        ELSE Merged(Lshift(procs[pid].threads[sample.thread], thread_stats))

\* no call of the library made yet, no copy of the statistics taken
CallerInit ==
    /\ c_call = None
    /\ c_ret = None
    /\ st_copy = None

\* no Austin wrapper is driven
AustinIdle ==
    /\ a_state = 0
    /\ a_meta = EmptyMap
    /\ a_cbs = {}
    /\ a_pc = "idle"
    /\ a_pos = 0
    /\ a_exc = ""
    /\ a_calls = <<>>
    /\ a_hist = <<>>
    /\ a_iters = <<>>

\* AustinStats(stats_type): no process yet, the lock free; no thread calls
\* update
StatsInit ==
    /\ processes = EmptyMap
    /\ st_updates = <<>>
    /\ st_exc = ""
    /\ lock = None
    /\ t_pc = <<>>
    /\ t_todo = <<>>
    /\ t_loc = <<>>

-----------------------------------------------------------------------------
(* MojoStreamReader as driven by a consumer of its iterator *)

\* BaseMojoStreamReader.__init__ for a source holding the bytes `src`
ReaderInit(src) ==
    /\ mojo = src
    /\ mojo_pos = 0
    /\ mojo_version = None
    /\ frame_map = EmptyMap
    /\ string_map = EmptyMap
    /\ offset = 0
    /\ last_read = 0
    /\ running = None
    /\ metadata = EmptyMap
    /\ samples = <<>>
    /\ intr = IntReaderFresh
    /\ strr = StrReaderFresh
    /\ r_err = None
    /\ yielded = <<>>
    /\ y_pos = <<>>
    /\ s_pos = <<>>
    /\ run_pos = 0
    /\ run_end = 0
    /\ last_ev = [ev |-> "none", tag |-> -1, at |-> -1, exc |-> "", key |-> None,
                  res |-> None]

\* the reader's fields after a call that left them as in r
Commit(r) ==
    /\ mojo_pos' = r.c.pos
    /\ offset' = r.c.offset
    /\ last_read' = r.c.last_read
    /\ intr' = r.c.intr
    /\ strr' = r.c.strr
    /\ frame_map' = r.fm
    /\ string_map' = r.sm
    /\ running' = r.run
    /\ metadata' = r.md
    /\ samples' = r.smp
    /\ s_pos' = r.spos
    /\ run_pos' = r.rpos
    /\ run_end' = r.rend

\* the exception err leaves the iterator
Fail(err) == r_pc' = "error" /\ r_err' = Some(err)

\* MojoStreamReader.parse, the header check: read(3) must be b"MOJ", then the
\* version is read; both reads raise ValueError on a short source
ParseHeader ==
    /\ r_pc = "new"
    /\ mojo_version = None
    /\ LET c1 == ReadN(Cur, 3)
           rv == ReadInt(c1)
       IN  IF c1.exc # ""
           THEN /\ Commit([Rd EXCEPT !.c = c1])
                /\ Fail(PlainError("Expected bytes", c1))
                /\ UNCHANGED mojo_version
           ELSE IF Got(Cur, 3) # MOJ
           THEN /\ Commit([Rd EXCEPT !.c = c1])
                /\ Fail(PlainError("Not a MOJO stream", c1))
                /\ UNCHANGED mojo_version
           ELSE IF rv.c.exc # ""
           THEN /\ Commit([Rd EXCEPT !.c = rv.c])
                /\ Fail(PlainError("Expected bytes", rv.c))
                /\ UNCHANGED mojo_version
           ELSE /\ Commit([Rd EXCEPT !.c = rv.c])
                /\ mojo_version' = rv.val
                /\ r_pc' = "events"
                /\ UNCHANGED r_err
    /\ UNCHANGED <<mojo, yielded, y_pos, last_ev, varintVars, callerVars, austinVars, fed, writerVars, statsVars>>

\* MojoStreamReader.__iter__, the body of its for loop: what is yielded for
\* the event parse has produced
IterYields(r) ==
    IF r.ev = "Metadata"
    THEN <<[type |-> "Metadata", name |-> r.mev[1].key, value |-> r.mev[1].value]>>
    ELSE IF r.ev = "Stack" /\ r.smp # <<>> THEN <<r.smp[Len(r.smp)]>>
    ELSE <<>>

\* where the bytes of the events of IterYields(r) lie in the source
IterYieldPos(r) ==
    IF r.ev = "Metadata" THEN <<[at |-> r.at, end |-> r.c.pos]>>
    ELSE IF r.ev = "Stack" /\ r.smp # <<>> THEN <<r.spos[Len(r.spos)]>>
    ELSE <<>>

\* One turn of the loops of parse and __iter__: parse_event reads and handles
\* one event and __iter__ yields what it has to; at the end of the source
\* parse returns, and __iter__ finalizes and yields the running sample
ParseEvent ==
    /\ r_pc = "events"
    /\ LET Finish(r, rf) ==
               /\ Commit(rf)
               /\ last_ev' = [ev |-> r.ev, tag |-> IF r.ev = "eof" THEN -1 ELSE r.tag,
                              at |-> IF r.ev = "eof" THEN r.c.pos ELSE r.at,
                              exc |-> r.exc, key |-> r.key, res |-> r.res]
               /\ IF r.ev = "eof"
                  THEN /\ r_pc' = "done"
                       /\ r_err' = None
                       /\ yielded' = IF r.run # None
                                     THEN Append(yielded, rf.smp[Len(rf.smp)])
                                     ELSE yielded
                       /\ y_pos' = IF r.run # None
                                   THEN Append(y_pos, rf.spos[Len(rf.spos)])
                                   ELSE y_pos
                  ELSE IF r.exc # ""
                  THEN /\ Fail(ParseEventError(r))
                       /\ UNCHANGED <<yielded, y_pos>>
                  ELSE /\ r_pc' = "events"
                       /\ r_err' = None
                       /\ yielded' = yielded \o IterYields(r)
                       /\ y_pos' = y_pos \o IterYieldPos(r)
           AtEnd(r) == Finish(r, IF r.ev = "eof" /\ r.run # None
                                 THEN FinalizeSample(r) ELSE r)
       IN  AtEnd(ParseEventResult(Rd))
    /\ UNCHANGED <<mojo, mojo_version, varintVars, callerVars, austinVars, fed, writerVars, statsVars>>

-----------------------------------------------------------------------------
(* read_int on the encodings of two integers (test_mojo_varint) *)

VarintSmall == 70

\* the integers tried: all of small magnitude, and those around the 6-, 13-
\* and 20-bit magnitude boundaries, of either sign
VarintInputs ==
    (-VarintSmall .. VarintSmall)
    \cup {sg * (2 ^ k + d) : sg \in {-1, 1}, k \in {6, 13, 20}, d \in {-1, 0, 1}}

InitVarint ==
    /\ vi_in \in VarintInputs \X VarintInputs
    /\ vi_out = <<>>
    /\ ReaderInit(ToVarint(vi_in[1]) \o ToVarint(vi_in[2]))
    /\ r_pc = "varint"
    /\ fed = [header |-> <<>>, events |-> <<>>]
    /\ WriterInit
    /\ CallerInit
    /\ AustinIdle
    /\ StatsInit

\* one turn of the loop of MojoStreamReader.read_int: a byte is read and sent
\* to int_reader, and read_int returns when int_reader yields a value
ReadIntStep ==
    /\ r_pc = "varint"
    /\ Len(vi_out) < Len(vi_in)
    /\ LET c1 == ReadN(Cur, 1)
           r  == IntReaderSend(c1.intr, mojo[c1.pos])
       IN  IF c1.exc # ""
           THEN /\ Commit([Rd EXCEPT !.c = c1])
                /\ Fail(PlainError("Expected bytes", c1))
                /\ UNCHANGED vi_out
           ELSE /\ Commit([Rd EXCEPT !.c = [c1 EXCEPT !.intr = r.st]])
                /\ vi_out' = IF r.out # None THEN Append(vi_out, r.out[1]) ELSE vi_out
                /\ UNCHANGED <<r_pc, r_err>>
    /\ UNCHANGED <<mojo, mojo_version, yielded, y_pos, last_ev, vi_in, callerVars, austinVars, fed, writerVars, statsVars>>

NextVarint == ReadIntStep

SpecVarint == InitVarint /\ [][NextVarint]_vars

\* the number of bytes of the source that read_int has consumed
Consumed == mojo_pos

\* C3: for every integer n tried, feeding the bytes of to_varint(n) one at a
\* time to the integer reader returns exactly n after exactly
\* len(to_varint(n)) bytes and no sooner, and the reader is then back in its
\* initial state, so that the integer encoded next is read back exactly too
VarintRoundTrip ==
    LET l1 == Len(ToVarint(vi_in[1]))
        l2 == Len(ToVarint(vi_in[2]))
    IN  /\ r_pc = "varint"
        /\ vi_out = IF Consumed < l1 THEN <<>>
                    ELSE IF Consumed < l1 + l2 THEN <<vi_in[1]>>
                    ELSE vi_in
        /\ (intr = IntReaderFresh) <=> (Consumed \in {0, l1, l1 + l2})
        /\ Consumed <= l1 + l2

\* a negative integer of three bytes has been read back, and the zero after it
VarintWitness ==
    /\ r_pc = "varint"
    /\ vi_in[1] < 0
    /\ Len(ToVarint(vi_in[1])) = 3
    /\ vi_in[2] = 0
    /\ vi_out = vi_in

-----------------------------------------------------------------------------
(* The reader on a raw source: a header followed by up to MaxRawEvents events
   laid out as the handlers of the header's version read them *)

MaxRawEvents == 3

\* a Stack event as parse_stack reads it under `version`
RawStackBytes(version, pid, iid, tid) ==
    <<STACK>> \o ToVarint(pid) \o (IF version >= 3 THEN ToVarint(iid) ELSE <<>>)
        \o StrBytes(tid)

\* a Frame event as parse_frame reads it under `version`
RawFrameBytes(version, key, filename_index, scope_index, line) ==
    <<FRAME>> \o ToVarint(key) \o ToVarint(filename_index) \o ToVarint(scope_index)
        \o ToVarint(line)
        \o (IF version = 1 THEN <<>> ELSE ToVarint(11) \o ToVarint(12) \o ToVarint(13))

\* the headers tried: short ones, wrong markers, and versions 1, 2 and 3
RawHeaders ==
    {<<>>, <<77, 79>>, MOJ, <<88, 79, 74, 3>>, <<77, 79, 88, 3>>,
     MOJ \o <<1>>, MOJ \o <<2>>, MOJ \o <<3>>}

ValidHeader(h) == Len(h) = 4 /\ SubSeq(h, 1, 3) = MOJ

\* the events tried: one or two of every tag, and two tags without a handler
RawEvents(version) ==
    {[ev |-> "Stack", arg |-> <<pid, 7, <<116>>>>,
      bytes |-> RawStackBytes(version, pid, 7, <<116>>)] : pid \in {1, 2}}
    \cup {[ev |-> "Frame", arg |-> <<0, fi>>,
           bytes |-> RawFrameBytes(version, 0, fi, 1, 10)] : fi \in {1, 2}}
    \cup {[ev |-> e[1], arg |-> <<>>, bytes |-> e[2]] : e \in
          {<<"Metadata", MetadataBytes(<<109>>, <<119>>)>>,
           <<"FrameRef", <<FRAME_REF>> \o ToVarint(0)>>,
           <<"String", <<STRING_DEF>> \o ToVarint(2) \o StrBytes(<<97>>)>>,
           <<"StringRef", <<STRING_REF>> \o ToVarint(2)>>,
           <<"Metric", MetricBytes("time", 5)>>,
           <<"Metric", MetricBytes("memory", -3)>>,
           <<"GC", <<GC>>>>,
           <<"Idle", <<IDLE>>>>,
           <<"InvalidFrame", <<FRAME_INVALID>>>>,
           <<"KernelFrame", <<FRAME_KERNEL>> \o StrBytes(<<107>>)>>,
           <<"unhandled", <<0>>>>,
           <<"unhandled", <<13>>>>}}

\* the producer appends one event to the source
FeedRaw(e) ==
    /\ r_pc = "build"
    /\ Len(fed.events) < MaxRawEvents
    /\ ValidHeader(fed.header) \/ fed.events = <<>>
    /\ mojo' = mojo \o e.bytes
    /\ fed' = [fed EXCEPT !.events = Append(@, [ev |-> e.ev, tag |-> e.bytes[1],
                                               arg |-> e.arg,
                                               at |-> Len(mojo),
                                               end |-> Len(mojo) + Len(e.bytes)])]
    /\ UNCHANGED <<mojo_pos, mojo_version, frame_map, string_map, offset,
                   last_read, running, metadata, samples, intr, strr, r_pc,
                   r_err, yielded, y_pos, s_pos, run_pos, run_end, last_ev,
                   varintVars, callerVars, austinVars, writerVars, statsVars>>

\* the consumer opens a MojoStreamReader on the source and starts iterating
ReaderOpen ==
    /\ r_pc = "build"
    /\ r_pc' = "new"
    /\ UNCHANGED <<mojo, mojo_pos, mojo_version, frame_map, string_map, offset,
                   last_read, running, metadata, samples, intr, strr,
                   r_err, yielded, y_pos, s_pos, run_pos, run_end, last_ev,
                   varintVars, callerVars, austinVars, fed, writerVars, statsVars>>

InitRaw ==
    /\ fed \in {[header |-> h, events |-> <<>>] : h \in RawHeaders}
    /\ ReaderInit(fed.header)
    /\ r_pc = "build"
    /\ vi_in = <<>>
    /\ vi_out = <<>>
    /\ WriterInit
    /\ CallerInit
    /\ AustinIdle
    /\ StatsInit

NextRaw ==
    \/ \E e \in RawEvents(IF ValidHeader(fed.header) THEN fed.header[4] ELSE 3) :
          FeedRaw(e)
    \/ ReaderOpen
    \/ ParseHeader
    \/ ParseEvent

SpecRaw == InitRaw /\ [][NextRaw]_vars

\* C4: a step of the iteration appends to reader.samples exactly when it
\* handles a Stack event while a running sample exists or reaches the end of
\* the stream with a running sample, and then appends exactly one sample; no
\* other event changes samples; and after a Stack event there is one running
\* sample with that Stack's pid, iid and thread, no frames and no metrics
SamplesAppendedOnStackOrEnd ==
    [][LET handled == r_pc = "events" /\ r_pc' # "error" /\ last_ev' # last_ev
           closes  == handled /\ last_ev'.ev \in {"Stack", "eof"} /\ running # None
       IN  /\ Len(samples') = Len(samples) + (IF closes THEN 1 ELSE 0)
           /\ SubSeq(samples', 1, Len(samples)) = samples
           /\ closes => /\ samples'[Len(samples')].pid = running[1].pid
                        /\ samples'[Len(samples')].thread = running[1].thread
           /\ (handled /\ last_ev'.ev = "Stack" /\ ValidHeader(fed.header)) =>
                 \E i \in 1..Len(fed.events) :
                    /\ fed.events[i].at = last_ev'.at
                    /\ fed.events[i].ev = "Stack"
                    /\ running' # None
                    /\ running'[1].pid = fed.events[i].arg[1]
                    /\ running'[1].iid = IF mojo_version[1] >= 3
                                         THEN Some(fed.events[i].arg[2]) ELSE None
                    /\ running'[1].thread = fed.events[i].arg[3]
                    /\ running'[1].frames = <<>>
                    /\ running'[1].metrics = [time |-> None, memory |-> None]
      ]_vars

\* two Stack events have been handled and the stream has ended: one sample
\* was appended at the second Stack and one at the end
SamplesAppendedWitness ==
    /\ r_pc = "done"
    /\ last_ev.ev = "eof"
    /\ Len(samples) = 2
    /\ Cardinality({i \in 1..Len(fed.events) : fed.events[i].ev = "Stack"}) = 2

\* C8: the events are yielded in the order of their bytes: no event is
\* yielded after an event whose bytes all lie behind its own (so a Metadata
\* whose bytes follow all the bytes of a sample is not yielded before that
\* sample), and a yielded sample's Frame-Reference, metric, GC and idle tags
\* have all been consumed
YieldedInByteOrder ==
    /\ \A i, j \in 1..Len(y_pos) :
          i < j => ~(y_pos[j].end <= y_pos[i].at)
    /\ \A k \in 1..Len(y_pos) :
          yielded[k].type = "Sample" => y_pos[k].end <= mojo_pos

\* C9: a source whose first three bytes are not b"MOJ", or that is shorter
\* than three bytes, fails with the bad-header error ("Not a MOJO stream")
\* before any event is yielded; the version stays unset and no sample or
\* metadata is recorded
BadHeaderRejected ==
    (r_pc \in {"events", "done", "error"}
        /\ (Len(mojo) < 3 \/ SubSeq(mojo, 1, Min(3, Len(mojo))) # MOJ)) =>
       /\ r_pc = "error"
       /\ r_err # None
       /\ r_err[1].exc = "ValueError"
       /\ r_err[1].msg = "Not a MOJO stream"
       /\ yielded = <<>>
       /\ mojo_version = None
       /\ samples = <<>>
       /\ metadata = EmptyMap

\* C10: once the reader has read a tag byte that is not in 1..12, the decode
\* has failed with the "Unhandled event" error carrying that tag and the
\* zero-based offset of the tag byte; nothing was yielded for the tag, and
\* the reader stands right after the tag byte
UnknownTagFails ==
    ValidHeader(fed.header) =>
       \A i \in 1..Len(fed.events) :
          (fed.events[i].tag \notin 1..12 /\ mojo_pos > fed.events[i].at) =>
             /\ r_pc = "error"
             /\ r_err = Some([exc |-> "ValueError", msg |-> "Unhandled event",
                              cause |-> "KeyError",
                              event_id |-> fed.events[i].tag,
                              offset |-> fed.events[i].at, last_read |-> 1])
             /\ mojo_pos = fed.events[i].at + 1
             /\ \A k \in 1..Len(y_pos) : y_pos[k].end <= fed.events[i].at

\* the tag 0 after a Metadata event and before another event: the Metadata
\* was yielded and the decode failed at the offset of the tag
UnknownTagWitness ==
    /\ ValidHeader(fed.header)
    /\ Len(fed.events) = 3
    /\ fed.events[1].ev = "Metadata"
    /\ fed.events[2].tag = 0
    /\ r_pc = "error"
    /\ r_err[1].offset = fed.events[2].at
    /\ Len(yielded) = 1

-----------------------------------------------------------------------------
(* Writer and reader back to back: up to MaxWrites events are written through
   one MojoStreamWriter and a fresh MojoStreamReader iterates over the bytes *)

MaxWrites == 3

\* the AustinFrames tried: two plain ones (one without and one with the
\* optional fields) and one whose filename is the empty string
FrameA == [filename |-> <<97>>, function |-> <<102>>, line |-> 1,
           line_end |-> Some(0), column |-> Some(0), column_end |-> Some(0)]
FrameB == [filename |-> <<97>>, function |-> <<103>>, line |-> 2,
           line_end |-> Some(3), column |-> Some(4), column_end |-> Some(5)]
FrameE == [filename |-> <<>>, function |-> <<102>>, line |-> 1,
           line_end |-> Some(0), column |-> Some(0), column_end |-> Some(0)]

MetadataInputs ==
    {[type |-> "Metadata", name |-> StrMode, value |-> v] :
        v \in {StrWall, StrFull, StrMemory}}
    \cup {[type |-> "Metadata", name |-> StrGc, value |-> StrOn]}

\* AustinSample(pid, iid, thread, metrics, frames, gc, idle)
AustinSample(pid, iid, thread, metrics, frames, gc, idle) ==
    [type |-> "Sample", pid |-> pid, iid |-> iid, thread |-> thread,
     metrics |-> metrics, frames |-> frames, gc |-> gc, idle |-> idle]

\* the samples tried: of two processes, without frames, with one frame and
\* with two; one with a frame of empty filename; one idle with both
\* metrics; one without an interpreter id
SampleInputs ==
    {AustinSample(pid, Some(1), <<116>>, [time |-> Some(5), memory |-> None],
                  fs, None, None) :
        pid \in {1, 2}, fs \in {None, Some(<<FrameA>>), Some(<<FrameB, FrameA>>)}}
    \cup {AustinSample(1, Some(1), <<116>>, [time |-> Some(5), memory |-> None],
                       Some(<<FrameE>>), None, None),
          AustinSample(1, Some(1), <<116>>, [time |-> Some(5), memory |-> Some(-3)],
                       Some(<<FrameA>>), None, Some(TRUE)),
          AustinSample(1, None, <<117>>, [time |-> Some(6), memory |-> None],
                       None, None, None)}

\* MojoStreamWriter.write
Write(event) ==
    /\ r_pc = "build"
    /\ Len(written) < MaxWrites
    /\ IF event.type = "Metadata"
       THEN WriteMetadata(event.name, event.value)
       ELSE WriteSample(event)
    /\ UNCHANGED <<mojo_pos, mojo_version, frame_map, string_map, offset,
                   last_read, running, metadata, samples, intr, strr, r_pc,
                   r_err, yielded, y_pos, s_pos, run_pos, run_end, last_ev,
                   varintVars, callerVars, austinVars, fed, statsVars>>

InitRoundTrip ==
    /\ WriterInit
    /\ CallerInit
    /\ AustinIdle
    /\ ReaderInit(HEADER)
    /\ r_pc = "build"
    /\ fed = [header |-> HEADER, events |-> <<>>]
    /\ vi_in = <<>>
    /\ vi_out = <<>>
    /\ StatsInit

NextRoundTrip ==
    \/ \E event \in MetadataInputs \cup SampleInputs : Write(event)
    \/ ReaderOpen
    \/ ParseHeader
    \/ ParseEvent

SpecRoundTrip == InitRoundTrip /\ [][NextRoundTrip]_vars

\* C1: when the reader has finished with the bytes of the writer, it has
\* finished without an error and has yielded as many events as were written,
\* in the same order: every metadata with the same name and value, every
\* sample with the same pid, iid, thread, frames, gc and idle, and with the
\* same value of each metric that the writer's mode populates
RoundTripEqual ==
    r_pc \in {"done", "error"} =>
       /\ r_pc = "done"
       /\ Len(yielded) = Len(written)
       /\ \A k \in 1..Len(written) :
             LET w == written[k]
                 y == yielded[k]
                 modes == {i \in 1..(k - 1) : /\ written[i].type = "Metadata"
                                              /\ written[i].name = StrMode}
                 mode == IF modes = {} THEN None
                         ELSE Some(written[CHOOSE i \in modes :
                                             \A i2 \in modes : i2 <= i].value)
             IN  /\ y.type = w.type
                 /\ w.type = "Metadata" => y.name = w.name /\ y.value = w.value
                 /\ w.type = "Sample" =>
                       /\ y.pid = w.pid
                       /\ y.iid = w.iid
                       /\ y.thread = w.thread
                       /\ y.frames = w.frames
                       /\ y.gc = w.gc
                       /\ y.idle = w.idle
                       /\ mode \in {Some(StrFull), Some(StrMemory)} =>
                             OrZero(y.metrics.memory) = OrZero(w.metrics.memory)
                       /\ mode # Some(StrMemory) =>
                             OrZero(y.metrics.time) = OrZero(w.metrics.time)

\* C2: the reader never fails on the bytes of the writer, and no lookup of
\* a string key or of a frame key in the reader's tables misses
NoUnresolvedKey ==
    /\ r_pc # "error"
    /\ last_ev.key = None

-----------------------------------------------------------------------------
(* AustinStats.update called by one thread, up to MaxUpdates times *)

MaxUpdates == 4

FrameF == Frame("f", "m.py", 1)
FrameG == Frame("g", "m.py", 2)

\* the samples tried: of one thread, every path of up to two frames (one of
\* them recursive) with two values; a second thread, a second process, and a
\* sample whose metric is of the other type
StatsSamples ==
    {Sample(1, "T1", Metric("TIME", v), fs) :
        v \in {1, 2},
        fs \in {<<>>, <<FrameF>>, <<FrameF, FrameG>>, <<FrameG>>, <<FrameF, FrameF>>}}
    \cup {Sample(1, "T2", Metric("TIME", 2), <<FrameF>>),
          Sample(2, "T1", Metric("TIME", 1), <<FrameF, FrameG>>),
          Sample(1, "T1", Metric("MEMORY", 4), <<FrameF>>)}

\* stats.get_process(pid).get_thread(thread), then get_child along path:
\* the node, or None if the process, the thread or a child is missing
StatsNode(procs, pid, thread, path) ==
    IF pid \notin DOMAIN procs THEN None
    ELSE IF thread \notin DOMAIN procs[pid].threads THEN None
    ELSE GetChildPath(procs[pid].threads[thread], path)

\* AustinStats.update(sample), called while no other call is in progress
Update(sample) ==
    /\ r_pc = "stats"
    /\ Len(st_updates) < MaxUpdates
    /\ LET Done(r) == /\ processes' = r.processes
                      /\ st_exc' = r.exc
       IN  Done(UpdateLocked(processes, sample, SinglePathStats(sample)))
    /\ st_updates' = Append(st_updates, sample)
    /\ UNCHANGED <<readerVars, varintVars, callerVars, austinVars, fed, writerVars, lock, t_pc, t_todo, t_loc>>

InitStats ==
    /\ StatsInit
    /\ ReaderInit(<<>>)
    /\ r_pc = "stats"
    /\ fed = [header |-> <<>>, events |-> <<>>]
    /\ vi_in = <<>>
    /\ vi_out = <<>>
    /\ WriterInit
    /\ CallerInit
    /\ AustinIdle

NextStats == \E sample \in StatsSamples : Update(sample)

SpecStats == InitStats /\ [][NextStats]_vars

\* the places a node can be at: process, thread, path of frames
StatsPlaces ==
    {<<pid, thread, path>> :
        pid \in {1, 2}, thread \in {"T1", "T2"},
        path \in {<<>>} \cup {<<a>> : a \in {FrameF, FrameG}}
                   \cup {<<a, b>> : a, b \in {FrameF, FrameG}}}

\* C5: an update call that returns, for a sample of value v and frames
\* f1..fn, leaves a node at every place where one was and at every prefix of
\* f1..fn under the sample's process and thread, and nowhere else; the total
\* of each node on the path has grown by v, the own of the last node of the
\* path alone has grown by v, and every other own and total is as before (an
\* update that raises changes nothing); and after k updates with one and the
\* same sample the last node of the path has own = total = k * v
UpdateAddsAlongPath ==
    [][st_updates' # st_updates =>
        LET s == st_updates'[Len(st_updates')]
            v == s.metric.value
            n == Len(s.frames)
            Val(o, field) == IF o = None THEN 0 ELSE o[1][field].value
            OnPath(pl) == /\ pl[1] = s.pid
                          /\ pl[2] = s.thread
                          /\ Len(pl[3]) <= n
                          /\ pl[3] = SubSeq(s.frames, 1, Len(pl[3]))
            Before(pl) == StatsNode(processes, pl[1], pl[2], pl[3])
            After(pl) == StatsNode(processes', pl[1], pl[2], pl[3])
            same == \A i \in 1..Len(st_updates') : st_updates'[i] = s
        IN  /\ st_exc' # "" => processes' = processes
            /\ st_exc' = "" =>
                  \A pl \in StatsPlaces :
                     /\ (After(pl) # None) <=> (Before(pl) # None \/ OnPath(pl))
                     /\ Val(After(pl), "total") =
                           Val(Before(pl), "total") + (IF OnPath(pl) THEN v ELSE 0)
                     /\ Val(After(pl), "own") =
                           Val(Before(pl), "own")
                              + (IF OnPath(pl) /\ Len(pl[3]) = n THEN v ELSE 0)
            /\ DOMAIN processes' = DOMAIN processes \cup {s.pid}
            /\ same =>
                  /\ st_exc' = ""
                  /\ Val(After(<<s.pid, s.thread, s.frames>>), "own")
                        = Len(st_updates') * v
                  /\ Val(After(<<s.pid, s.thread, s.frames>>), "total")
                        = Len(st_updates') * v
      ]_vars

\* three updates with the same sample of two frames: the leaf has own and
\* total three times the value, the node above it own 0
UpdateAddsWitness ==
    /\ r_pc = "stats"
    /\ st_updates = [i \in 1..3 |-> Sample(1, "T1", Metric("TIME", 2),
                                           <<FrameF, FrameG>>)]
    /\ processes[1].threads["T1"].children[FrameF].children[FrameG].own.value = 6
    /\ processes[1].threads["T1"].children[FrameF].own.value = 0
    /\ processes[1].threads["T1"].total.value = 6

RECURSIVE TotalIsOwnPlusChildrenAt(_)
\* at stats and at every node below it, total is own plus the totals of the
\* children
TotalIsOwnPlusChildrenAt(stats) ==
    LET RECURSIVE SumTotals(_)
        SumTotals(labels) ==
            IF labels = {} THEN 0
            ELSE LET l == CHOOSE x \in labels : TRUE
                 IN  stats.children[l].total.value + SumTotals(labels \ {l})
    IN  /\ stats.total.value = stats.own.value + SumTotals(DOMAIN stats.children)
        /\ \A l \in DOMAIN stats.children :
              TotalIsOwnPlusChildrenAt(stats.children[l])

\* C6: after any sequence of update calls, every node of every thread of
\* every process has total = own + the sum of the totals of its children
TotalIsOwnPlusChildren ==
    \A pid \in DOMAIN processes :
       \A thread \in DOMAIN processes[pid].threads :
          TotalIsOwnPlusChildrenAt(processes[pid].threads[thread])

\* a thread whose root has two children, one of them with a child of its
\* own, after four updates
TotalIsOwnPlusChildrenWitness ==
    /\ r_pc = "stats"
    /\ Len(st_updates) = 4
    /\ 1 \in DOMAIN processes
    /\ "T1" \in DOMAIN processes[1].threads
    /\ DOMAIN processes[1].threads["T1"].children = {FrameF, FrameG}
    /\ FrameG \in DOMAIN processes[1].threads["T1"].children[FrameF].children
    /\ processes[1].threads["T1"].own.value > 0

-----------------------------------------------------------------------------
(* AustinStats.update called by two threads on one AustinStats.  The block
   under the lock is taken one load, store or test at a time; a node of the
   statistics is addressed by its place (pid, thread, path of frames), which
   is exact as long as the blocks do not overlap. *)

MaxConcUpdates == 4

Callers == {1, 2}

\* the samples submitted: two of one thread that share a frame, one without
\* frames of another thread, one of another process
ConcSamples ==
    {Sample(1, "T1", Metric("TIME", 1), <<FrameF>>),
     Sample(1, "T1", Metric("TIME", 2), <<FrameF, FrameG>>),
     Sample(1, "T2", Metric("TIME", 1), <<>>),
     Sample(2, "T1", Metric("TIME", 2), <<FrameF>>)}

RECURSIVE SetChildPath(_, _, _)
\* stats with the node at path (reached as by get_child) replaced by node
SetChildPath(stats, path, node) ==
    IF path = <<>> THEN node
    ELSE [stats EXCEPT !.children[Head(path)] = SetChildPath(@, Tail(path), node)]

\* the left operand of the << in progress in thread t: the node at the
\* place t has reached, or None
LshiftSelf(t) ==
    StatsNode(processes, t_loc[t].sample.pid, t_loc[t].sample.thread, t_loc[t].path)

\* processes with the left operand of the << of thread t replaced by node
LshiftStore(t, node) ==
    [processes EXCEPT ![t_loc[t].sample.pid].threads[t_loc[t].sample.thread] =
                          SetChildPath(@, t_loc[t].path, node)]

\* thread t moves to pc, its locals becoming loc
Goto(t, pc, loc) ==
    /\ t_pc' = [t_pc EXCEPT ![t] = pc]
    /\ t_loc' = [t_loc EXCEPT ![t] = loc]

\* update(sample) is called in thread t: the single-path ThreadStats is built
Call(t, sample) ==
    /\ r_pc = "conc"
    /\ t_pc[t] = "idle"
    /\ Len(t_todo[1]) + Len(t_todo[2]) < MaxConcUpdates
    /\ t_todo' = [t_todo EXCEPT ![t] = Append(@, sample)]
    /\ Goto(t, "acquire", [sample |-> sample, thread_stats |-> SinglePathStats(sample),
                           path |-> <<>>, other |-> SinglePathStats(sample),
                           tmp |-> Metric("TIME", 0)])
    /\ UNCHANGED <<processes, st_updates, st_exc, lock,
                   readerVars, varintVars, callerVars, austinVars, fed, writerVars>>

\* a faulty variant of Acquire: the block is entered whether the lock is free or not
AcquireNoWait(t) ==
    /\ r_pc = "conc"
    /\ t_pc[t] = "acquire"
    /\ lock' = Some(t)
    /\ Goto(t, "check_pid", t_loc[t])
    /\ UNCHANGED <<processes, st_updates, st_exc, t_todo,
                   readerVars, varintVars, callerVars, austinVars, fed, writerVars>>

\* `with self._lock:` is entered: the thread waits until the lock is free
Acquire(t) ==
    /\ r_pc = "conc"
    /\ t_pc[t] = "acquire"
    /\ lock = None
    /\ lock' = Some(t)
    /\ Goto(t, "check_pid", t_loc[t])
    /\ UNCHANGED <<processes, st_updates, st_exc, t_todo,
                   readerVars, varintVars, callerVars, austinVars, fed, writerVars>>

\* `if pid not in self.processes:`
CheckPid(t) ==
    /\ t_pc[t] = "check_pid"
    /\ Goto(t, IF t_loc[t].sample.pid \notin DOMAIN processes
               THEN "insert_process" ELSE "check_thread", t_loc[t])
    /\ UNCHANGED <<processes, st_updates, st_exc, lock, t_todo,
                   readerVars, varintVars, callerVars, austinVars, fed, writerVars>>

\* `self.processes[pid] = ProcessStats(pid, {sample.thread: thread_stats})`
InsertProcess(t) ==
    /\ t_pc[t] = "insert_process"
    /\ processes' = Put(processes, t_loc[t].sample.pid,
                        ProcessStats(t_loc[t].sample.pid,
                                     Put(EmptyMap, t_loc[t].sample.thread,
                                         t_loc[t].thread_stats)))
    /\ Goto(t, "release", t_loc[t])
    /\ UNCHANGED <<st_updates, st_exc, lock, t_todo,
                   readerVars, varintVars, callerVars, austinVars, fed, writerVars>>

\* `if sample.thread not in process.threads:`
CheckThread(t) ==
    /\ t_pc[t] = "check_thread"
    /\ t_loc[t].sample.pid \in DOMAIN processes
    /\ Goto(t, IF t_loc[t].sample.thread
                     \notin DOMAIN processes[t_loc[t].sample.pid].threads
               THEN "insert_thread" ELSE "lshift", t_loc[t])
    /\ UNCHANGED <<processes, st_updates, st_exc, lock, t_todo,
                   readerVars, varintVars, callerVars, austinVars, fed, writerVars>>

\* `process.threads[sample.thread] = thread_stats`
InsertThread(t) ==
    /\ t_pc[t] = "insert_thread"
    /\ t_loc[t].sample.pid \in DOMAIN processes
    /\ processes' = [processes EXCEPT ![t_loc[t].sample.pid].threads =
                        Put(@, t_loc[t].sample.thread, t_loc[t].thread_stats)]
    /\ Goto(t, "release", t_loc[t])
    /\ UNCHANGED <<st_updates, st_exc, lock, t_todo,
                   readerVars, varintVars, callerVars, austinVars, fed, writerVars>>

\* __lshift__ is entered: the labels are compared and, for `self.own +=
\* other.own`, self.own is loaded
LshiftEnter(t) ==
    /\ t_pc[t] = "lshift"
    /\ LshiftSelf(t) # None
    /\ IF LshiftSelf(t)[1].label # t_loc[t].other.label
       THEN Goto(t, "release", t_loc[t])
       ELSE Goto(t, "own_store", [t_loc[t] EXCEPT !.tmp = LshiftSelf(t)[1].own])
    /\ UNCHANGED <<processes, st_updates, st_exc, lock, t_todo,
                   readerVars, varintVars, callerVars, austinVars, fed, writerVars>>

\* `self.own += other.own`: the sum of the value loaded is stored
OwnStore(t) ==
    /\ t_pc[t] = "own_store"
    /\ LshiftSelf(t) # None
    /\ LET Stored(sum) ==
               IF sum.exc # ""
               THEN /\ st_exc' = sum.exc
                    /\ Goto(t, "release", t_loc[t])
                    /\ UNCHANGED processes
               ELSE /\ processes' = LshiftStore(t, [LshiftSelf(t)[1] EXCEPT
                                                       !.own = sum.val])
                    /\ Goto(t, "total_load", t_loc[t])
                    /\ UNCHANGED st_exc
       IN  Stored(MetricAdd(t_loc[t].tmp, t_loc[t].other.own))
    /\ UNCHANGED <<st_updates, lock, t_todo,
                   readerVars, varintVars, callerVars, austinVars, fed, writerVars>>

\* `self.total += other.total`: self.total is loaded
TotalLoad(t) ==
    /\ t_pc[t] = "total_load"
    /\ LshiftSelf(t) # None
    /\ Goto(t, "total_store", [t_loc[t] EXCEPT !.tmp = LshiftSelf(t)[1].total])
    /\ UNCHANGED <<processes, st_updates, st_exc, lock, t_todo,
                   readerVars, varintVars, callerVars, austinVars, fed, writerVars>>

\* `self.total += other.total`: the sum of the value loaded is stored
TotalStore(t) ==
    /\ t_pc[t] = "total_store"
    /\ LshiftSelf(t) # None
    /\ LET Stored(sum) ==
               IF sum.exc # ""
               THEN /\ st_exc' = sum.exc
                    /\ Goto(t, "release", t_loc[t])
                    /\ UNCHANGED processes
               ELSE /\ processes' = LshiftStore(t, [LshiftSelf(t)[1] EXCEPT
                                                       !.total = sum.val])
                    /\ Goto(t, "children", t_loc[t])
                    /\ UNCHANGED st_exc
       IN  Stored(MetricAdd(t_loc[t].tmp, t_loc[t].other.total))
    /\ UNCHANGED <<st_updates, lock, t_todo,
                   readerVars, varintVars, callerVars, austinVars, fed, writerVars>>

\* the loop over other.children (the right operand is a single path, with at
\* most one child): << is entered on a child self has, a child it has not is
\* adopted, and without a child the calls return
LshiftChild(t) ==
    /\ t_pc[t] = "children"
    /\ LshiftSelf(t) # None
    /\ IF DOMAIN t_loc[t].other.children = {}
       THEN /\ Goto(t, "release", t_loc[t])
            /\ UNCHANGED processes
       ELSE LET frame == CHOOSE f \in DOMAIN t_loc[t].other.children : TRUE
            IN  IF frame \in DOMAIN LshiftSelf(t)[1].children
                THEN /\ Goto(t, "lshift",
                             [t_loc[t] EXCEPT !.path = Append(@, frame),
                                              !.other = @.children[frame]])
                     /\ UNCHANGED processes
                ELSE /\ processes' = LshiftStore(t, [LshiftSelf(t)[1] EXCEPT
                                        !.children = Put(@, frame,
                                            t_loc[t].other.children[frame])])
                     /\ Goto(t, "release", t_loc[t])
    /\ UNCHANGED <<st_updates, st_exc, lock, t_todo,
                   readerVars, varintVars, callerVars, austinVars, fed, writerVars>>

\* the with block is left and update returns
Release(t) ==
    /\ t_pc[t] = "release"
    /\ lock' = None
    /\ st_updates' = Append(st_updates, t_loc[t].sample)
    /\ Goto(t, "idle", t_loc[t])
    /\ UNCHANGED <<processes, st_exc, t_todo,
                   readerVars, varintVars, callerVars, austinVars, fed, writerVars>>

InitConc ==
    /\ processes = EmptyMap
    /\ st_updates = <<>>
    /\ st_exc = ""
    /\ lock = None
    /\ t_pc = [t \in Callers |-> "idle"]
    /\ t_todo = [t \in Callers |-> <<>>]
    /\ t_loc = [t \in Callers |->
                  [sample |-> Sample(0, "", Metric("TIME", 0), <<>>),
                   thread_stats |-> SinglePathStats(Sample(0, "", Metric("TIME", 0), <<>>)),
                   path |-> <<>>,
                   other |-> SinglePathStats(Sample(0, "", Metric("TIME", 0), <<>>)),
                   tmp |-> Metric("TIME", 0)]]
    /\ ReaderInit(<<>>)
    /\ r_pc = "conc"
    /\ fed = [header |-> <<>>, events |-> <<>>]
    /\ vi_in = <<>>
    /\ vi_out = <<>>
    /\ WriterInit
    /\ CallerInit
    /\ AustinIdle

NextConc ==
    \E t \in Callers :
       \/ \E sample \in ConcSamples : Call(t, sample)
       \/ Acquire(t)
       \/ CheckPid(t)
       \/ InsertProcess(t)
       \/ CheckThread(t)
       \/ InsertThread(t)
       \/ LshiftEnter(t)
       \/ OwnStore(t)
       \/ TotalLoad(t)
       \/ TotalStore(t)
       \/ LshiftChild(t)
       \/ Release(t)

SpecStatsConc == InitConc /\ [][NextConc]_vars

RECURSIVE UpdateAll(_, _)
\* update called with each of the samples, one call after the other, on
\* the processes procs
UpdateAll(procs, ss) ==
    IF ss = <<>> THEN procs
    ELSE UpdateAll(UpdateLocked(procs, Head(ss), SinglePathStats(Head(ss))).processes,
                   Tail(ss))

\* C7: whenever no update call is inside the locked block, the statistics
\* are those that the update calls that have returned give when made one
\* after the other in the order in which they returned; these calls are,
\* sample for sample, the calls the threads have made and are not still
\* making; and each thread root's total is the sum of the values of the
\* samples of its (pid, thread) among them
ConcurrentUpdatesSerialize ==
    lock = None =>
       LET RECURSIVE SumValues(_, _, _)
           SumValues(ss, pid, thread) ==
               IF ss = <<>> THEN 0
               ELSE (IF Head(ss).pid = pid /\ Head(ss).thread = thread
                     THEN Head(ss).metric.value ELSE 0)
                    + SumValues(Tail(ss), pid, thread)
           Returned(t) == IF t_pc[t] = "idle" THEN t_todo[t]
                          ELSE SubSeq(t_todo[t], 1, Len(t_todo[t]) - 1)
           Count(ss, x) == Cardinality({i \in 1..Len(ss) : ss[i] = x})
       IN  /\ processes = UpdateAll(EmptyMap, st_updates)
           /\ \A x \in ConcSamples :
                 Count(st_updates, x) = Count(Returned(1), x) + Count(Returned(2), x)
           /\ \A pid \in {1, 2}, thread \in {"T1", "T2"} :
                 IF \E i \in 1..Len(st_updates) :
                       st_updates[i].pid = pid /\ st_updates[i].thread = thread
                 THEN /\ StatsNode(processes, pid, thread, <<>>) # None
                      /\ StatsNode(processes, pid, thread, <<>>)[1].total.value
                            = SumValues(st_updates, pid, thread)
                 ELSE StatsNode(processes, pid, thread, <<>>) = None

\* both threads have made calls for the same thread of the same process,
\* three in all, the first to return being the second thread's, and all
\* have returned
ConcurrentUpdatesWitness ==
    /\ r_pc = "conc"
    /\ lock = None
    /\ \A t \in Callers : t_pc[t] = "idle"
    /\ Len(t_todo[1]) = 1
    /\ Len(t_todo[2]) = 2
    /\ \A i \in 1..3 : st_updates[i].pid = 1 /\ st_updates[i].thread = "T1"
    /\ st_updates[1] = t_todo[2][1]
    /\ st_updates[1] # t_todo[1][1]
    /\ processes[1].threads["T1"].total.value >= 4

-----------------------------------------------------------------------------
(* The reader on a raw source that may end inside an event: as above, and the
   producer may end the source with the first n bytes of an event *)

MaxCutEvents == 2

\* the events that are cut short: those of RawEvents and a time metric whose
\* varint takes two bytes
CutEvents(version) ==
    RawEvents(version)
    \cup {[ev |-> "Metric", arg |-> <<>>, bytes |-> MetricBytes("time", 200)]}

\* the producer ends the source after the first n bytes of the event e, and
\* the consumer opens a MojoStreamReader on it
FeedCut(e, n) ==
    /\ r_pc = "build"
    /\ Len(fed.events) < MaxCutEvents
    /\ ValidHeader(fed.header)
    /\ n \in 1..(Len(e.bytes) - 1)
    /\ mojo' = mojo \o SubSeq(e.bytes, 1, n)
    /\ fed' = [fed EXCEPT !.events = Append(@, [ev |-> "cut", tag |-> e.bytes[1],
                                               arg |-> e.arg,
                                               at |-> Len(mojo),
                                               end |-> Len(mojo) + n])]
    /\ r_pc' = "new"
    /\ UNCHANGED <<mojo_pos, mojo_version, frame_map, string_map, offset,
                   last_read, running, metadata, samples, intr, strr,
                   r_err, yielded, y_pos, s_pos, run_pos, run_end, last_ev,
                   varintVars, callerVars, austinVars, writerVars, statsVars>>

NextRawCut ==
    \/ \E e \in RawEvents(IF ValidHeader(fed.header) THEN fed.header[4] ELSE 3) :
          FeedRaw(e)
    \/ \E e \in CutEvents(IF ValidHeader(fed.header) THEN fed.header[4] ELSE 3) :
          \E n \in 1..3 : FeedCut(e, n)
    \/ ReaderOpen
    \/ ParseHeader
    \/ ParseEvent

SpecRawCut == InitRaw /\ [][NextRawCut]_vars

\* the source ends inside its last event
EndsInsideEvent ==
    /\ ValidHeader(fed.header)
    /\ fed.events # <<>>
    /\ fed.events[Len(fed.events)].ev = "cut"

\* C11: a failure raised while the handler of a recognised tag runs
\* (truncated payload, unregistered frame or string key, no running sample)
\* leaves the iterator as MojoParseError with the offset and the last-read
\* count of the reader, and the "Unhandled event" error is raised only for
\* a tag that has no handler
HandlerFailuresAreMojoParseError ==
    (r_pc = "error" /\ r_err[1].cause # "") =>
       /\ last_ev.tag \in HandlerTags =>
             /\ r_err[1].exc = "MojoParseError"
             /\ r_err[1].offset = offset
             /\ r_err[1].last_read = last_read
       /\ r_err[1].msg = "Unhandled event" => last_ev.tag \notin HandlerTags

\* C12: when the source ends at a tag boundary the iteration ends normally,
\* the running sample (if any) being finalized and yielded last; when the
\* source ends inside the payload of an event (in a varint, before the zero
\* byte of a string) the parse of that event raises MojoParseError, yields
\* and records nothing, and the iteration is never reported as ended normally
EndOfStreamOnlyAtTagBoundary ==
    [][LET parsing == r_pc = "events" /\ r_pc' # "events"
           in_cut  == /\ EndsInsideEvent
                      /\ mojo_pos = fed.events[Len(fed.events)].at
       IN  /\ (r_pc = "events" /\ mojo_pos = Len(mojo)) =>
                 /\ r_pc' = "done"
                 /\ running' = None
                 /\ mojo_pos' = Len(mojo)
                 /\ yielded' = IF running # None
                               THEN Append(yielded, AustinSampleOf(running[1]))
                               ELSE yielded
                 /\ samples' = IF running # None
                               THEN Append(samples, AustinSampleOf(running[1]))
                               ELSE samples
           /\ (r_pc = "events" /\ in_cut) =>
                 /\ r_pc' = "error"
                 /\ r_err'[1].exc = "MojoParseError"
                 /\ r_err'[1].cause = "ValueError"
                 /\ mojo_pos' = Len(mojo)
                 /\ UNCHANGED <<yielded, samples, running, metadata, frame_map,
                                string_map>>
           /\ (parsing /\ r_pc' = "done") => mojo_pos = Len(mojo)
      ]_vars

\* a source that ends inside the varint of a metric after a Stack event: the
\* parse failed and the running sample was not yielded
EndOfStreamWitness ==
    /\ EndsInsideEvent
    /\ Len(fed.events) = 2
    /\ fed.events[1].ev = "Stack"
    /\ fed.events[2].tag = METRIC_TIME
    /\ fed.events[2].end = fed.events[2].at + 2
    /\ r_pc = "error"
    /\ running # None
    /\ yielded = <<>>

-----------------------------------------------------------------------------
(* Version gating of the Frame and Stack events (SpecRaw) *)

\* the number of varints in the bytes of the source from index a + 1 to b: a
\* varint ends at its first byte without the continuation bit
VarintsIn(a, b) == Cardinality({i \in (a + 1)..b : mojo[i] < 128})

\* the event of the source that the last parse_event call handled
LastFed == CHOOSE i \in 1..Len(fed.events) : fed.events[i].at = last_ev.at

\* C13: a Frame event decoded under version 1 consumes exactly four varints
\* after its tag and registers a frame whose line_end, column and column_end
\* are None; under another version it consumes exactly seven varints and the
\* three fields are the fifth, sixth and seventh value, in that order
FrameFieldsByVersion ==
    (ValidHeader(fed.header) /\ r_pc = "events" /\ last_ev.ev = "Frame") =>
       LET fr == frame_map[<<running[1].pid, fed.events[LastFed].arg[1]>>]
       IN  /\ fed.events[LastFed].ev = "Frame"
           /\ VarintsIn(last_ev.at + 1, mojo_pos)
                 = IF mojo_version = Some(1) THEN 4 ELSE 7
           /\ mojo[mojo_pos] < 128
           /\ fr.line = 10
           /\ <<fr.line_end, fr.column, fr.column_end>>
                 = IF mojo_version = Some(1) THEN <<None, None, None>>
                   ELSE <<Some(11), Some(12), Some(13)>>

\* a Frame event has just been decoded under version 1, after a Stack event
FrameFieldsWitness ==
    /\ mojo_version = Some(1)
    /\ r_pc = "events"
    /\ last_ev.ev = "Frame"
    /\ Len(fed.events) = 2
    /\ fed.events[1].ev = "Stack"
    /\ fed.events[2].ev = "Frame"
    /\ mojo_pos = fed.events[2].end

\* C14: a Stack event decoded under version 3 or later consumes the tag, the
\* pid varint, the iid varint and the thread string, and the sample it opens
\* (and every sample finalized from such a sample) carries that iid; under a
\* version below 3 it consumes the tag, the pid varint and the thread string
\* and the iid is None
StackFieldsByVersion ==
    /\ (ValidHeader(fed.header) /\ r_pc = "events" /\ last_ev.ev = "Stack") =>
          /\ fed.events[LastFed].ev = "Stack"
          /\ SubSeq(mojo, last_ev.at + 1, mojo_pos)
                = <<STACK, fed.events[LastFed].arg[1]>>
                  \o (IF mojo_version[1] >= 3 THEN <<7>> ELSE <<>>) \o <<116, 0>>
          /\ running # None
          /\ running[1].pid = fed.events[LastFed].arg[1]
          /\ running[1].thread = <<116>>
          /\ running[1].iid = IF mojo_version[1] >= 3 THEN Some(7) ELSE None
    /\ ValidHeader(fed.header) =>
          \A k \in 1..Len(samples) :
             samples[k].iid = IF mojo_version[1] >= 3 THEN Some(7) ELSE None

\* under version 2 a Stack event has opened a sample, which a second Stack
\* event has finalized
StackFieldsWitness ==
    /\ mojo_version = Some(2)
    /\ r_pc = "events"
    /\ last_ev.ev = "Stack"
    /\ Len(samples) = 1
    /\ running # None

-----------------------------------------------------------------------------
(* The reader's string and frame tables: a version 3 source that starts with
   a Stack event, followed by up to MaxKeyEvents - 1 events that register or
   name the string keys 1 and 2 and the frame key 0 under the pids 1 and 2 *)

MaxKeyEvents == 5

\* the events tried; arg holds the fields of the event
KeyEvents ==
    {[ev |-> "Stack", arg |-> <<pid, 7, <<116>>>>,
      bytes |-> RawStackBytes(3, pid, 7, <<116>>)] : pid \in {1, 2}}
    \cup {[ev |-> "String", arg |-> <<a[1], a[2]>>,
           bytes |-> <<STRING_DEF>> \o ToVarint(a[1]) \o StrBytes(a[2])] :
          a \in {<<2, <<97>>>>, <<2, <<98>>>>, <<1, <<97>>>>}}
    \cup {[ev |-> "StringRef", arg |-> <<k>>,
           bytes |-> <<STRING_REF>> \o ToVarint(k)] : k \in {1, 2}}
    \cup {[ev |-> "Frame", arg |-> <<0, a[1], a[2]>>,
           bytes |-> RawFrameBytes(3, 0, a[1], 1, a[2])] :
          a \in {<<2, 10>>, <<1, 20>>}}
    \cup {[ev |-> "FrameRef", arg |-> <<0>>, bytes |-> <<FRAME_REF>> \o ToVarint(0)]}

\* the producer appends one event to the source; the first one is a Stack
FeedKey(e) ==
    /\ r_pc = "build"
    /\ Len(fed.events) < MaxKeyEvents
    /\ fed.events = <<>> => e.ev = "Stack"
    /\ mojo' = mojo \o e.bytes
    /\ fed' = [fed EXCEPT !.events = Append(@, [ev |-> e.ev, tag |-> e.bytes[1],
                                               arg |-> e.arg,
                                               at |-> Len(mojo),
                                               end |-> Len(mojo) + Len(e.bytes)])]
    /\ UNCHANGED <<mojo_pos, mojo_version, frame_map, string_map, offset,
                   last_read, running, metadata, samples, intr, strr, r_pc,
                   r_err, yielded, y_pos, s_pos, run_pos, run_end, last_ev,
                   varintVars, callerVars, austinVars, writerVars, statsVars>>

InitKeys ==
    /\ fed = [header |-> MOJ \o <<3>>, events |-> <<>>]
    /\ ReaderInit(fed.header)
    /\ r_pc = "build"
    /\ vi_in = <<>>
    /\ vi_out = <<>>
    /\ WriterInit
    /\ CallerInit
    /\ AustinIdle
    /\ StatsInit

NextKeys ==
    \/ \E e \in KeyEvents : FeedKey(e)
    \/ ReaderOpen
    \/ ParseHeader
    \/ ParseEvent

SpecKeys == InitKeys /\ [][NextKeys]_vars

\* the reader has read the tag of an event of the source, which is LastFed
AtFedEvent == r_pc \in {"events", "error"} /\ last_ev.tag \in HandlerTags

\* the largest element of a non-empty set of numbers
MaxOf(S) == CHOOSE x \in S : \A y \in S : y <= x

\* the pid of the last Stack event of the source before its i-th event
PidAt(i) ==
    fed.events[MaxOf({j \in 1..(i - 1) : fed.events[j].ev = "Stack"})].arg[1]

\* the events before the i-th that registered the key k of the given kind
\* ("String" or "Frame") under the pid that is current at the i-th event
Regs(i, kind, k) ==
    {j \in 2..(i - 1) : /\ fed.events[j].ev = kind
                        /\ fed.events[j].arg[1] = k
                        /\ PidAt(j) = PidAt(i)}

\* C15: string key 1 resolves to the unknown string for every pid without a
\* String event, both when a Frame names it as filename or function and when
\* a String-Reference names it; another string key that was not registered
\* for the current pid fails with a lookup error
KeyOneIsUnknown ==
    (AtFedEvent /\ LastFed > 1) =>
       LET e == fed.events[LastFed]
           names == IF e.ev = "StringRef" THEN {e.arg[1]}
                    ELSE IF e.ev = "Frame" THEN {e.arg[2]} ELSE {}
       IN  /\ (e.ev = "StringRef" /\ e.arg[1] = 1) =>
                 r_pc # "error" /\ last_ev.res = Some(UNKNOWN)
           /\ e.ev = "Frame" =>
                 (r_pc # "error" => last_ev.res[1].scope = UNKNOWN)
           /\ (e.ev = "Frame" /\ e.arg[2] = 1) =>
                 r_pc # "error" /\ last_ev.res[1].filename = UNKNOWN
           /\ \A k \in names :
                 (k # 1 /\ <<PidAt(LastFed), k>> \notin DOMAIN string_map) =>
                    r_pc = "error" /\ r_err[1].cause = "KeyError"

\* C16: string and frame keys are scoped by the pid of the most recent Stack
\* event.  A String-Reference, a Frame-Reference and the filename of a Frame
\* resolve exactly when the key was registered while the same pid was
\* current, and then to something registered under that pid; every entry of
\* the tables was registered under its own pid; and registering a key under
\* one pid leaves the entries of every other pid as they were
KeysScopedByPid ==
    /\ [](AtFedEvent /\ LastFed > 1 =>
            LET e  == fed.events[LastFed]
                p  == PidAt(LastFed)
                ok == r_pc # "error"
            IN  /\ e.ev = "StringRef" =>
                      /\ ok <=> Regs(LastFed, "String", e.arg[1]) # {}
                      /\ ok => \E j \in Regs(LastFed, "String", e.arg[1]) :
                                  last_ev.res[1].value = fed.events[j].arg[2]
                /\ e.ev = "FrameRef" =>
                      /\ ok <=> Regs(LastFed, "Frame", e.arg[1]) # {}
                      /\ ok => \E j \in Regs(LastFed, "Frame", e.arg[1]) :
                                  last_ev.res[1].line = fed.events[j].arg[3]
                /\ (e.ev = "Frame" /\ e.arg[2] # 1) =>
                      /\ ok <=> Regs(LastFed, "String", e.arg[2]) # {}
                      /\ ok => \E j \in Regs(LastFed, "String", e.arg[2]) :
                                  last_ev.res[1].filename.value = fed.events[j].arg[2]
                /\ \A pk \in DOMAIN string_map :
                      \E j \in 2..LastFed :
                         /\ fed.events[j].ev = "String"
                         /\ PidAt(j) = pk[1]
                         /\ fed.events[j].arg = <<pk[2], string_map[pk].value>>
                /\ \A pk \in DOMAIN frame_map :
                      \E j \in 2..LastFed :
                         /\ fed.events[j].ev = "Frame"
                         /\ PidAt(j) = pk[1]
                         /\ fed.events[j].arg[1] = pk[2]
                         /\ fed.events[j].arg[3] = frame_map[pk].line)
    /\ [][(r_pc = "events" /\ running # None) =>
             /\ \A pk \in DOMAIN string_map :
                   pk[1] # running[1].pid =>
                      pk \in DOMAIN string_map' /\ string_map'[pk] = string_map[pk]
             /\ \A pk \in DOMAIN frame_map :
                   pk[1] # running[1].pid =>
                      pk \in DOMAIN frame_map' /\ frame_map'[pk] = frame_map[pk]
             /\ \A pk \in DOMAIN string_map' \cup DOMAIN frame_map' :
                   pk \in DOMAIN string_map \cup DOMAIN frame_map
                      \/ pk[1] = running[1].pid
         ]_vars

\* key 2 was registered as "a" under pid 1 and as "b" under pid 2, and a
\* String-Reference to key 2 under pid 2 has resolved to "b"
KeysScopedWitness ==
    /\ Len(fed.events) = 5
    /\ AtFedEvent
    /\ LastFed = 5
    /\ fed.events[5].ev = "StringRef"
    /\ r_pc = "events"
    /\ <<1, 2>> \in DOMAIN string_map
    /\ <<2, 2>> \in DOMAIN string_map
    /\ string_map[<<1, 2>>].value = <<97>>
    /\ string_map[<<2, 2>>].value = <<98>>
    /\ PidAt(5) = 2
    /\ last_ev.res[1].value = <<98>>

\* the string that a Frame or String-Reference at the i-th event gets for
\* the key k by the last registration made under the current pid; key 1 is
\* the unknown string when nothing was registered under it, or always
LastString(i, k, one_always_unknown) ==
    IF k = 1 /\ (one_always_unknown \/ Regs(i, "String", k) = {}) THEN UNKNOWN
    ELSE [key |-> k, value |-> fed.events[MaxOf(Regs(i, "String", k))].arg[2]]

\* the frame that the Frame event at index j of the source registers
FrameOfEvent(j, one_always_unknown) ==
    [key |-> fed.events[j].arg[1],
     filename |-> LastString(j, fed.events[j].arg[2], one_always_unknown),
     scope |-> UNKNOWN, line |-> fed.events[j].arg[3],
     line_end |-> Some(11), column |-> Some(12), column_end |-> Some(13)]

\* registering a key that is registered replaces the entry without raising,
\* and a later resolution of the key gives the last registered value
LastWriteWinsFor(one_always_unknown) ==
    (AtFedEvent /\ LastFed > 1) =>
       LET e == fed.events[LastFed]
           p == PidAt(LastFed)
           resolvable(k) == k = 1 \/ Regs(LastFed, "String", k) # {}
       IN  /\ e.ev = "String" =>
                 /\ r_pc # "error"
                 /\ string_map[<<p, e.arg[1]>>] = [key |-> e.arg[1], value |-> e.arg[2]]
           /\ (e.ev = "Frame" /\ resolvable(e.arg[2])) =>
                 /\ r_pc # "error"
                 /\ frame_map[<<p, e.arg[1]>>] = FrameOfEvent(LastFed, one_always_unknown)
           /\ (e.ev = "StringRef" /\ e.arg[1] # 1
                 /\ Regs(LastFed, "String", e.arg[1]) # {}) =>
                 /\ r_pc # "error"
                 /\ last_ev.res = Some(LastString(LastFed, e.arg[1], FALSE))
           /\ (e.ev = "FrameRef" /\ Regs(LastFed, "Frame", e.arg[1]) # {}) =>
                 /\ r_pc # "error"
                 /\ last_ev.res = Some(FrameOfEvent(
                        MaxOf(Regs(LastFed, "Frame", e.arg[1])), one_always_unknown))
                 /\ running[1].frames[Len(running[1].frames)] = last_ev.res[1]

\* C17 as stated: for every key, string key 1 included, the resolution of a
\* (pid, key) gives the value registered last
LastWriteWinsEveryKey == LastWriteWinsFor(FALSE)

\* C17: registering a string or frame under a (pid, key) that is registered
\* replaces the entry without raising, and every later resolution of that
\* (pid, key) gives the value registered last, for every frame key and every
\* string key other than 1; a Frame that names string key 1 gets the unknown
\* string whatever was registered under key 1
LastWriteWins == LastWriteWinsFor(TRUE)

\* string key 2 was registered as "a" and then as "b" under one pid, and a
\* Frame that names it has got "b"
LastWriteWinsWitness ==
    /\ AtFedEvent
    /\ r_pc = "events"
    /\ LastFed = 4
    /\ fed.events[2].arg = <<2, <<97>>>>
    /\ fed.events[3].arg = <<2, <<98>>>>
    /\ fed.events[4].ev = "Frame"
    /\ fed.events[4].arg[2] = 2
    /\ last_ev.res[1].filename.value = <<98>>

-----------------------------------------------------------------------------
(* MojoStreamWriter alone: up to MaxWriterWrites events are written through
   one writer *)

MaxWriterWrites == 4

\* FrameA with its optional fields left out
FrameN == [filename |-> <<97>>, function |-> <<102>>, line |-> 1,
           line_end |-> None, column |-> None, column_end |-> None]

\* the samples tried: without frames, with one frame, with two, with one
\* frame twice, with a frame of empty filename, with a frame without its
\* optional fields; idle with a memory metric and no time metric; not idle
\* and with its gc field set
WriterSamples ==
    {AustinSample(1, Some(1), <<116>>, [time |-> Some(5), memory |-> None],
                  fs, None, None) :
        fs \in {None, Some(<<FrameA>>), Some(<<FrameA, FrameA>>),
                Some(<<FrameE>>), Some(<<FrameN>>)}}
    \cup {AustinSample(2, Some(1), <<116>>, [time |-> Some(5), memory |-> None],
                       Some(<<FrameB, FrameA>>), None, None),
          AustinSample(1, Some(1), <<116>>, [time |-> None, memory |-> Some(-3)],
                       Some(<<FrameA>>), None, Some(TRUE)),
          AustinSample(1, None, <<117>>, [time |-> Some(6), memory |-> None],
                       None, Some(TRUE), Some(FALSE))}

\* "off"
StrOff == <<111, 102, 102>>

\* the metadata tried: those of MetadataInputs and "gc: off"
WriterMetadata ==
    MetadataInputs \cup {[type |-> "Metadata", name |-> StrGc, value |-> StrOff]}

\* MojoStreamWriter.write, no reader being involved
WriteOut(event) ==
    /\ Len(written) < MaxWriterWrites
    /\ IF event.type = "Metadata"
       THEN WriteMetadata(event.name, event.value)
       ELSE WriteSample(event)
    /\ UNCHANGED <<mojo_pos, mojo_version, frame_map, string_map, offset,
                   last_read, running, metadata, samples, intr, strr, r_pc,
                   r_err, yielded, y_pos, s_pos, run_pos, run_end, last_ev,
                   varintVars, callerVars, austinVars, fed, statsVars>>

NextWriter == \E event \in WriterMetadata \cup WriterSamples : WriteOut(event)

SpecWriter == InitRoundTrip /\ [][NextWriter]_vars

\* the mojo.write calls of the n-th write call, in order
OutOf(n) == SelectSeq(w_out, LAMBDA e : e.n = n)

\* the frames of a sample, in order
FramesOf(event) == IF event.frames = None THEN <<>> ELSE event.frames[1]

\* where a MOJO event stands in the output of one sample
OutClass(e) ==
    IF e.tag = STACK THEN 0
    ELSE IF e.tag \in {STRING_DEF, FRAME} THEN 1
    ELSE IF e.tag = FRAME_REF THEN 2
    ELSE 3

\* C18: in what write puts out for one sample, the bytes are those of its
\* MOJO events in order; the Stack event comes first; each string created
\* for a new frame is defined before that frame's definition; each new frame
\* is defined before the first Frame-Reference to it; the Frame-References
\* follow the definitions, one per frame of the sample from the outermost
\* to the innermost; and the queue of new entries is empty when write
\* returns
DefinitionsBeforeReferences ==
    [][(Len(written') = Len(written) + 1 /\ written'[Len(written')].type = "Sample") =>
          LET c    == SubSeq(w_out', Len(w_out) + 1, Len(w_out'))
              ev   == written'[Len(written')]
              refs == SelectSeq(c, LAMBDA e : e.tag = FRAME_REF)
          IN  /\ mojo' = mojo \o Concat([i \in 1..Len(c) |-> c[i].bytes])
              /\ c[1].tag = STACK
              /\ \A i, j \in 1..Len(c) : i < j => OutClass(c[i]) <= OutClass(c[j])
              /\ \A i \in 2..Len(c) : c[i].tag # STACK
              /\ \A f \in (DOMAIN w_frames') \ (DOMAIN w_frames) :
                    \E i \in 1..Len(c) :
                       /\ c[i].tag = FRAME
                       /\ c[i].key = w_frames'[f].key
                       /\ \A j \in 1..Len(c) :
                             (c[j].tag = FRAME_REF /\ c[j].key = c[i].key) => i < j
                       /\ \A v \in {f.filename, f.function} :
                             v \in (DOMAIN w_strings') \ (DOMAIN w_strings) =>
                                \E j \in 1..(i - 1) :
                                   /\ c[j].tag = STRING_DEF
                                   /\ c[j].key = w_strings'[v].key
                                   /\ c[j].obj[1].value = v
              /\ Len(refs) = Len(FramesOf(ev))
              /\ \A i \in 1..Len(refs) :
                    refs[i].key = w_frames'[FramesOf(ev)[i]].key
              /\ w_new_entries' = <<>>
      ]_vars

\* a sample of two new frames that share their filename has been written:
\* three strings and two frames were defined
DefinitionsBeforeReferencesWitness ==
    /\ Len(written) = 1
    /\ written[1].type = "Sample"
    /\ FramesOf(written[1]) = <<FrameB, FrameA>>
    /\ Cardinality({i \in 1..Len(w_out) : w_out[i].tag = STRING_DEF}) = 3
    /\ Cardinality({i \in 1..Len(w_out) : w_out[i].tag = FRAME}) = 2

\* the frames of the samples written so far
FramesWritten ==
    UNION {{FramesOf(written[k])[i] : i \in 1..Len(FramesOf(written[k]))} :
              k \in {k \in 1..Len(written) : written[k].type = "Sample"}}

\* C19: over the writes made to one writer, each distinct frame has exactly
\* one Frame definition in the output, which carries its content and its key,
\* and there is no other Frame definition; no two String definitions have
\* the same value or the same key; and each occurrence of a frame in a sample
\* emits one Frame-Reference with the key of that frame's definition
OneDefinitionPerFrame ==
    LET defs(tag) == {i \in 1..Len(w_out) : w_out[i].tag = tag}
    IN  /\ \A f \in FramesWritten :
              \E i \in defs(FRAME) :
                 /\ w_out[i].obj[1].filename.value = f.filename
                 /\ w_out[i].obj[1].scope.value = f.function
                 /\ w_out[i].obj[1].line = f.line
                 /\ w_out[i].obj[1].line_end = OrZero(f.line_end)
                 /\ w_out[i].obj[1].column = OrZero(f.column)
                 /\ w_out[i].obj[1].column_end = OrZero(f.column_end)
                 /\ \A k \in 1..Len(written) :
                       written[k].type = "Sample" =>
                          LET refs == SelectSeq(OutOf(k), LAMBDA e : e.tag = FRAME_REF)
                          IN  /\ Len(refs) = Len(FramesOf(written[k]))
                              /\ \A j \in 1..Len(refs) :
                                    FramesOf(written[k])[j] = f <=>
                                       refs[j].key = w_out[i].key
        /\ Cardinality(defs(FRAME)) = Cardinality(FramesWritten)
        /\ \A i, j \in defs(FRAME) : i # j => w_out[i].key # w_out[j].key
        /\ \A i, j \in defs(STRING_DEF) :
              i # j => /\ w_out[i].obj[1].value # w_out[j].obj[1].value
                       /\ w_out[i].key # w_out[j].key

\* two samples that share a frame have been written: one Frame definition
\* and two Frame-References
OneDefinitionPerFrameWitness ==
    /\ Len(written) = 2
    /\ written[1].type = "Sample" /\ written[2].type = "Sample"
    /\ FramesOf(written[1]) = <<FrameA>>
    /\ FramesOf(written[2]) = <<FrameA>>
    /\ written[1] # written[2]
    /\ Cardinality({i \in 1..Len(w_out) : w_out[i].tag = FRAME}) = 1
    /\ Cardinality({i \in 1..Len(w_out) : w_out[i].tag = FRAME_REF}) = 2

\* the value of the last "mode" metadata written before the k-th write
ModeBefore(k) ==
    LET modes == {i \in 1..(k - 1) : /\ written[i].type = "Metadata"
                                      /\ written[i].name = StrMode}
    IN  IF modes = {} THEN None ELSE Some(written[MaxOf(modes)].value)

\* C20: the output for a sample ends with the tags that the last "mode"
\* metadata written before it asks for: in mode "full" an Idle tag exactly
\* when the sample's idle flag is set, then a Time metric, then a Memory
\* metric; in mode "memory" one Memory metric; otherwise one Time metric;
\* a metric that the sample does not have is written as 0
MetricTagsFollowMode ==
    \A k \in 1..Len(written) :
       written[k].type = "Sample" =>
          LET c    == OutOf(k)
              m    == SelectSeq(c, LAMBDA e : e.tag \in {IDLE, METRIC_TIME, METRIC_MEMORY})
              mode == ModeBefore(k)
              time == <<METRIC_TIME>> \o ToVarint(OrZero(written[k].metrics.time))
              mem  == <<METRIC_MEMORY>> \o ToVarint(OrZero(written[k].metrics.memory))
              want == IF mode = Some(StrFull)
                      THEN (IF written[k].idle = Some(TRUE) THEN <<<<IDLE>>>> ELSE <<>>)
                           \o <<time, mem>>
                      ELSE IF mode = Some(StrMemory) THEN <<mem>>
                      ELSE <<time>>
          IN  /\ [i \in 1..Len(m) |-> m[i].bytes] = want
              /\ SubSeq(c, Len(c) - Len(m) + 1, Len(c)) = m

\* in mode "full" an idle sample without a time metric has been written, and
\* then, in mode "memory", a sample without a memory metric
MetricTagsWitness ==
    /\ Len(written) = 4
    /\ written[1] = [type |-> "Metadata", name |-> StrMode, value |-> StrFull]
    /\ written[2].type = "Sample"
    /\ written[2].idle = Some(TRUE)
    /\ written[2].metrics.time = None
    /\ written[3] = [type |-> "Metadata", name |-> StrMode, value |-> StrMemory]
    /\ written[4].type = "Sample"
    /\ written[4].metrics.memory = None

\* C21: a sample written after Metadata("gc", "on") puts out exactly one GC
\* tag, whatever its own gc field and whatever metadata was written in
\* between ("gc: off" included); a sample written before any "gc: on" puts
\* out none
GcTagAfterGcOn ==
    \A k \in 1..Len(written) :
       written[k].type = "Sample" =>
          LET on == \E i \in 1..(k - 1) :
                       written[i] = [type |-> "Metadata", name |-> StrGc,
                                     value |-> StrOn]
              gc == SelectSeq(OutOf(k), LAMBDA e : e.tag = GC)
          IN  /\ Len(gc) = IF on THEN 1 ELSE 0
              /\ \A i \in 1..Len(gc) : gc[i].bytes = <<GC>>
              /\ w_gc = \E i \in 1..Len(written) :
                           written[i] = [type |-> "Metadata", name |-> StrGc,
                                         value |-> StrOn]

\* a sample with its gc field set was written before "gc: on", then "gc: on"
\* and "gc: off", then a sample without a gc field
GcTagWitness ==
    /\ Len(written) = 4
    /\ written[1].type = "Sample"
    /\ written[1].gc = Some(TRUE)
    /\ written[2] = [type |-> "Metadata", name |-> StrGc, value |-> StrOn]
    /\ written[3] = [type |-> "Metadata", name |-> StrGc, value |-> StrOff]
    /\ written[4].type = "Sample"
    /\ written[4].gc = None
    /\ Cardinality({i \in 1..Len(w_out) : w_out[i].tag = GC}) = 1

-----------------------------------------------------------------------------
(* HierarchicalStats.__lshift__ called on two trees of statistics *)

\* a call of the library by its caller, and the specification's start with
\* one of `calls` about to be made
LibCall(op, args) == [op |-> op, args |-> args]

InitCall(calls) ==
    /\ StatsInit
    /\ ReaderInit(<<>>)
    /\ r_pc = "call"
    /\ fed = [header |-> <<>>, events |-> <<>>]
    /\ vi_in = <<>>
    /\ vi_out = <<>>
    /\ WriterInit
    /\ c_call \in {Some(c) : c \in calls}
    /\ c_ret = None
    /\ st_copy = None
    /\ AustinIdle

TimeOf(v) == Metric("TIME", v)

\* the children collections made of `nodes`: for each label, no child or
\* one of the nodes with that label
ChildrenOf(nodes) ==
    LET labels == {n.label : n \in nodes}
    IN  {kids \in UNION {[ls -> nodes] : ls \in SUBSET labels} :
            \A l \in DOMAIN kids : kids[l].label = l}

RECURSIVE SumOfTotals(_, _)
SumOfTotals(kids, todo) ==
    IF todo = {} THEN 0
    ELSE LET l == CHOOSE x \in todo : TRUE
         IN  kids[l].total.value + SumOfTotals(kids, todo \ {l})

\* the trees merged: leaves at height 1, frames at height 0 over them, and
\* threads over at most one such frame
MergeLeaves ==
    {FrameStats(l, 1, TimeOf(v), TimeOf(v), EmptyMap) : l \in {FrameF, FrameG}, v \in {1, 2}}

MergeFrames ==
    {FrameStats(l, 0, TimeOf(o), TimeOf(o + SumOfTotals(kids, DOMAIN kids)), kids) :
        l \in {FrameF, FrameG}, o \in {0, 1}, kids \in ChildrenOf(MergeLeaves)}

MergeThreads ==
    {ThreadStats(t, TimeOf(o), TimeOf(o + SumOfTotals(kids, DOMAIN kids)), kids) :
        t \in {"T1", "T2"}, o \in {0, 3},
        kids \in ChildrenOf({n \in MergeFrames : n.label = FrameF})}

MergeCalls ==
    {LibCall("lshift", <<a, b>>) : a \in MergeFrames, b \in MergeFrames}
    \cup {LibCall("lshift", <<a, b>>) : a \in MergeThreads, b \in MergeThreads}

\* a << b: a and b after the call, the object returned, the exception raised
LshiftCall(self, other) ==
    LET Result(r) == [self |-> r.node, other |-> other, ret |-> r.node, exc |-> r.exc]
    IN  Result(Lshift(self, other))

Merge ==
    /\ r_pc = "call"
    /\ c_call # None
    /\ c_ret = None
    /\ c_call[1].op = "lshift"
    /\ c_ret' = Some(LshiftCall(c_call[1].args[1], c_call[1].args[2]))
    /\ UNCHANGED <<readerVars, varintVars, fed, writerVars, statsVars, c_call, st_copy, austinVars>>

InitMerge == InitCall(MergeCalls)

NextMerge == Merge

SpecMerge == InitMerge /\ [][NextMerge]_vars

\* the paths of labels below a node of the trees merged
MergePaths ==
    {<<>>} \cup {<<l>> : l \in {FrameF, FrameG}}
    \cup {<<l, k>> : l \in {FrameF, FrameG}, k \in {FrameF, FrameG}}

\* C22: a << b with a.label # b.label leaves a as it was, own, total and
\* subtree, does not modify b, raises nothing and returns a
MergeDifferentLabelsIsNoOp ==
    (c_ret # None /\ c_call[1].op = "lshift") =>
        LET a == c_call[1].args[1]
            b == c_call[1].args[2]
        IN  a.label # b.label =>
               /\ c_ret[1].self = a
               /\ c_ret[1].other = b
               /\ c_ret[1].ret = a
               /\ c_ret[1].exc = ""

\* two frames with different labels, each with a child, have been merged
MergeDifferentLabelsWitness ==
    /\ c_ret # None
    /\ c_call[1].op = "lshift"
    /\ c_call[1].args[1] \in MergeFrames
    /\ c_call[1].args[1].label = FrameF
    /\ c_call[1].args[2].label = FrameG
    /\ DOMAIN c_call[1].args[1].children = {FrameG}
    /\ DOMAIN c_call[1].args[2].children = {FrameG}
    /\ c_ret[1].ret = c_call[1].args[1]

\* the value of own and of total at the node a path leads to, 0 where there
\* is no such node
OwnAt(stats, path) ==
    LET n == GetChildPath(stats, path) IN IF n = None THEN 0 ELSE n[1].own.value

TotalAt(stats, path) ==
    LET n == GetChildPath(stats, path) IN IF n = None THEN 0 ELSE n[1].total.value

\* C23: a << b with a.label = b.label makes a the tree that has a node
\* wherever a or b has one, with own and total the sums of the operands'
\* values there: own and total of a are summed, a child both have is merged
\* the same way, a child only b has becomes a's child as it is in b, and a
\* child only a has stays as it was
MergeEqualLabelsSums ==
    (c_ret # None /\ c_call[1].op = "lshift") =>
        LET a == c_call[1].args[1]
            b == c_call[1].args[2]
            r == c_ret[1].self
        IN  a.label = b.label =>
               /\ c_ret[1].exc = ""
               /\ c_ret[1].ret = r
               /\ r.label = a.label
               /\ r.own = TimeOf(a.own.value + b.own.value)
               /\ r.total = TimeOf(a.total.value + b.total.value)
               /\ DOMAIN r.children = DOMAIN a.children \cup DOMAIN b.children
               /\ \A l \in DOMAIN b.children \ DOMAIN a.children :
                     r.children[l] = b.children[l]
               /\ \A l \in DOMAIN a.children \ DOMAIN b.children :
                     r.children[l] = a.children[l]
               /\ \A p \in MergePaths :
                     /\ GetChildPath(r, p) = None <=>
                           (GetChildPath(a, p) = None /\ GetChildPath(b, p) = None)
                     /\ OwnAt(r, p) = OwnAt(a, p) + OwnAt(b, p)
                     /\ TotalAt(r, p) = TotalAt(a, p) + TotalAt(b, p)
                     /\ GetChildPath(r, p) # None =>
                           /\ GetChildPath(r, p)[1].label =
                                 IF p = <<>> THEN a.label ELSE p[Len(p)]
                           /\ GetChildPath(r, p)[1].own.type = "TIME"
                           /\ GetChildPath(r, p)[1].total.type = "TIME"

\* two threads with the same label have been merged, whose frame f both
\* have, with a child g both have, a child f only b has, and nothing else
MergeEqualLabelsWitness ==
    /\ c_ret # None
    /\ c_call[1].op = "lshift"
    /\ c_call[1].args[1] \in MergeThreads
    /\ c_call[1].args[1].label = c_call[1].args[2].label
    /\ c_call[1].args[1].own.value = 3
    /\ DOMAIN c_call[1].args[1].children = {FrameF}
    /\ DOMAIN c_call[1].args[2].children = {FrameF}
    /\ DOMAIN c_call[1].args[1].children[FrameF].children = {FrameG}
    /\ DOMAIN c_call[1].args[2].children[FrameF].children = {FrameF, FrameG}
    /\ OwnAt(c_ret[1].self, <<FrameF, FrameG>>) = 3
    /\ OwnAt(c_ret[1].self, <<FrameF, FrameF>>) = 2

-----------------------------------------------------------------------------
(* copy.deepcopy(stats) taken by a reporter while threads call update *)

\* AustinStats.__deepcopy__: the fields but _lock are copied, whether the
\* lock is held or not, into a new AustinStats with a lock of its own
DeepCopy ==
    /\ r_pc = "conc"
    /\ st_copy = None
    /\ st_copy' = Some([processes |-> processes, lock |-> None])
    /\ UNCHANGED <<readerVars, varintVars, fed, writerVars, statsVars, c_call, c_ret, austinVars>>

NextCopy ==
    \/ NextConc
    \/ DeepCopy

SpecStatsCopy == InitConc /\ [][NextCopy]_vars

\* the sequences of update calls made so far, each call at most once
CallsMade ==
    LET calls == {<<t, i>> : t \in Callers, i \in 1..MaxConcUpdates}
        made  == {c \in calls : c[2] <= Len(t_todo[c[1]])}
        RECURSIVE Seqs(_)
        Seqs(cs) == {<<>>} \cup UNION {{<<t_todo[c[1]][c[2]]>> \o s : s \in Seqs(cs \ {c})} : c \in cs}
    IN  Seqs(made)

\* C24: a deep copy taken while threads call update holds the statistics
\* that some of the update calls made give when made one after the other,
\* with total = own + the totals of the children at every node, and a lock
\* of its own that nobody holds
DeepCopyIsSnapshot ==
    st_copy # None =>
       /\ \E ss \in CallsMade : st_copy[1].processes = UpdateAll(EmptyMap, ss)
       /\ \A pid \in DOMAIN st_copy[1].processes :
             \A thread \in DOMAIN st_copy[1].processes[pid].threads :
                TotalIsOwnPlusChildrenAt(st_copy[1].processes[pid].threads[thread])
       /\ st_copy[1].lock = None

-----------------------------------------------------------------------------
(* get_process, get_thread and get_child called on an aggregator *)

\* a faulty variant of GetProcess: a missing process is created, as
\* by a defaultdict
GetProcessDefault(procs, pid) ==
    IF pid \in DOMAIN procs
    THEN [exc |-> "", val |-> Some(procs[pid]), self |-> procs]
    ELSE [exc |-> "", val |-> Some(ProcessStats(pid, EmptyMap)),
          self |-> Put(procs, pid, ProcessStats(pid, EmptyMap))]

\* AustinStats.get_process: `self.processes[pid]` of a dict; self is
\* stats.processes after the call
GetProcess(procs, pid) ==
    IF pid \in DOMAIN procs
    THEN [exc |-> "", val |-> Some(procs[pid]), self |-> procs]
    ELSE [exc |-> "KeyError", val |-> None, self |-> procs]

\* ProcessStats.get_thread: `self.threads.get(thread_name)`, None for a
\* thread that is not registered; self is the ProcessStats after the call
GetThread(proc, thread_name) ==
    [exc |-> "",
     val |-> IF thread_name \in DOMAIN proc.threads
             THEN Some(proc.threads[thread_name]) ELSE None,
     self |-> proc]

\* HierarchicalStats.get_child: `self.children[label]` of a dict; self is
\* the node after the call
GetChild(stats, label) ==
    IF label \in DOMAIN stats.children
    THEN [exc |-> "", val |-> Some(stats.children[label]), self |-> stats]
    ELSE [exc |-> "KeyError", val |-> None, self |-> stats]

MaxLookupUpdates == 2

\* the aggregators looked into: those that up to MaxLookupUpdates update
\* calls give
LookupStates ==
    LET RECURSIVE After(_)
        After(n) ==
            IF n = 0 THEN {EmptyMap}
            ELSE After(n - 1) \cup
                 {UpdateLocked(procs, s, SinglePathStats(s)).processes :
                     procs \in After(n - 1),
                     s \in {x \in StatsSamples : x.metric.type = "TIME"}}
    IN  After(MaxLookupUpdates)

\* the lookups made: of a process, of a thread of process 1, of a child of
\* thread T1 of process 1
LookupCalls ==
    {LibCall("get_process", <<pid>>) : pid \in {1, 2, 3}}
    \cup {LibCall("get_thread", <<1, t>>) : t \in {"T1", "T2", "T3"}}
    \cup {LibCall("get_child", <<1, "T1", f>>) : f \in {FrameF, FrameG}}

\* stats.get_process(pid)
LookupProcess ==
    /\ r_pc = "call"
    /\ c_call # None
    /\ c_ret = None
    /\ c_call[1].op = "get_process"
    /\ LET Done(r) == /\ c_ret' = Some([exc |-> r.exc, val |-> r.val])
                      /\ processes' = r.self
       IN  Done(GetProcess(processes, c_call[1].args[1]))
    /\ UNCHANGED <<readerVars, varintVars, fed, writerVars, st_updates, st_exc,
                   lock, t_pc, t_todo, t_loc, c_call, st_copy, austinVars>>

\* process.get_thread(thread_name), process being a registered process
LookupThread ==
    /\ r_pc = "call"
    /\ c_call # None
    /\ c_ret = None
    /\ c_call[1].op = "get_thread"
    /\ c_call[1].args[1] \in DOMAIN processes
    /\ LET Done(r) == /\ c_ret' = Some([exc |-> r.exc, val |-> r.val])
                      /\ processes' = [processes EXCEPT ![c_call[1].args[1]] = r.self]
       IN  Done(GetThread(processes[c_call[1].args[1]], c_call[1].args[2]))
    /\ UNCHANGED <<readerVars, varintVars, fed, writerVars, st_updates, st_exc,
                   lock, t_pc, t_todo, t_loc, c_call, st_copy, austinVars>>

\* thread.get_child(label), thread being a registered thread
LookupChild ==
    /\ r_pc = "call"
    /\ c_call # None
    /\ c_ret = None
    /\ c_call[1].op = "get_child"
    /\ StatsNode(processes, c_call[1].args[1], c_call[1].args[2], <<>>) # None
    /\ LET Done(r) ==
               /\ c_ret' = Some([exc |-> r.exc, val |-> r.val])
               /\ processes' = [processes EXCEPT
                      ![c_call[1].args[1]].threads[c_call[1].args[2]] = r.self]
       IN  Done(GetChild(processes[c_call[1].args[1]].threads[c_call[1].args[2]],
                         c_call[1].args[3]))
    /\ UNCHANGED <<readerVars, varintVars, fed, writerVars, st_updates, st_exc,
                   lock, t_pc, t_todo, t_loc, c_call, st_copy, austinVars>>

InitLookup ==
    /\ processes \in LookupStates
    /\ st_updates = <<>>
    /\ st_exc = ""
    /\ lock = None
    /\ t_pc = <<>>
    /\ t_todo = <<>>
    /\ t_loc = <<>>
    /\ ReaderInit(<<>>)
    /\ r_pc = "call"
    /\ fed = [header |-> <<>>, events |-> <<>>]
    /\ vi_in = <<>>
    /\ vi_out = <<>>
    /\ WriterInit
    /\ c_call \in {Some(c) : c \in LookupCalls}
    /\ c_ret = None
    /\ st_copy = None
    /\ AustinIdle

NextLookup ==
    \/ LookupProcess
    \/ LookupThread
    \/ LookupChild

SpecLookup == InitLookup /\ [][NextLookup]_vars

\* the key looked up is one the aggregator has
LookupKeySeen(procs, c) ==
    CASE c.op = "get_process" -> c.args[1] \in DOMAIN procs
      [] c.op = "get_thread"  -> c.args[2] \in DOMAIN procs[c.args[1]].threads
      [] c.op = "get_child"   ->
            c.args[3] \in DOMAIN procs[c.args[1]].threads[c.args[2]].children

-----------------------------------------------------------------------------
(* AustinStats(AustinStatsType.WALL).update called with samples that carry
   no time *)

\* the samples tried: with a time, with a time of zero, and with a memory
\* metric, for a thread the aggregator may or may not have
ZeroSamples ==
    {Sample(1, "T1", Metric("TIME", 1), <<FrameF>>),
     Sample(1, "T1", Metric("TIME", 0), <<FrameF, FrameG>>),
     Sample(1, "T2", Metric("TIME", 0), <<>>),
     Sample(2, "T1", Metric("TIME", 0), <<FrameF>>),
     Sample(1, "T1", Metric("MEMORY", 4), <<FrameG>>),
     Sample(2, "T2", Metric("MEMORY", 4), <<FrameF>>)}

NextStatsZero == \E sample \in ZeroSamples : Update(sample)

SpecStatsZero == InitStats /\ [][NextStatsZero]_vars

\* C26: an update of the WALL aggregator with a sample whose metric is zero
\* or is not a time leaves stats.processes as it was and raises nothing
ZeroOrMismatchedUpdateIsNoOp ==
    [][\A s \in ZeroSamples :
          (st_updates' = Append(st_updates, s)
              /\ (s.metric.value = 0 \/ s.metric.type # "TIME"))
          => (processes' = processes /\ st_exc' = "")]_vars

-----------------------------------------------------------------------------
(* AustinStats.flatten called on an aggregator that update calls have filled *)

RECURSIVE FlattenNode(_, _, _, _)
RECURSIVE FlattenChildren(_, _, _, _, _)

\* a faulty variant of FlattenNode: a sample is yielded for every node
FlattenNodeAll(pid, thread, node, path) ==
    <<Sample(pid, thread, node.own, path)>>
    \o FlattenChildren(pid, thread, node, path, DOMAIN node.children)

\* flatten at one node reached from the thread root by `path`: its sample
\* if own is not zero, then those of its descendants, depth first
FlattenNode(pid, thread, node, path) ==
    (IF node.own.value # 0 THEN <<Sample(pid, thread, node.own, path)>> ELSE <<>>)
    \o FlattenChildren(pid, thread, node, path, DOMAIN node.children)

\* flatten over the children `todo` of a node, one after the other
FlattenChildren(pid, thread, node, path, todo) ==
    IF todo = {} THEN <<>>
    ELSE LET l == CHOOSE x \in todo : TRUE
         IN  FlattenNode(pid, thread, node.children[l], Append(path, l))
             \o FlattenChildren(pid, thread, node, path, todo \ {l})

RECURSIVE FlattenThreads(_, _)
\* flatten over the threads `todo` of a process
FlattenThreads(proc, todo) ==
    IF todo = {} THEN <<>>
    ELSE LET t == CHOOSE x \in todo : TRUE
         IN  FlattenNode(proc.pid, t, proc.threads[t], <<>>)
             \o FlattenThreads(proc, todo \ {t})

RECURSIVE FlattenProcesses(_, _)
\* flatten over the processes `todo` of the aggregator
FlattenProcesses(procs, todo) ==
    IF todo = {} THEN <<>>
    ELSE LET pid == CHOOSE x \in todo : TRUE
         IN  FlattenThreads(procs[pid], DOMAIN procs[pid].threads)
             \o FlattenProcesses(procs, todo \ {pid})

\* AustinStats.flatten: the samples yielded, in order
Flatten(procs) == FlattenProcesses(procs, DOMAIN procs)

\* the samples the aggregator is filled with: two threads and two
\* processes, paths that share a prefix, and a sample whose time is zero
FlattenSamples ==
    {Sample(1, "T1", Metric("TIME", 1), <<>>),
     Sample(1, "T1", Metric("TIME", 2), <<FrameF>>),
     Sample(1, "T1", Metric("TIME", 1), <<FrameF, FrameG>>),
     Sample(1, "T1", Metric("TIME", 0), <<FrameG>>),
     Sample(1, "T2", Metric("TIME", 1), <<FrameF>>),
     Sample(2, "T1", Metric("TIME", 2), <<FrameG, FrameF>>)}

\* list(stats.flatten()), called once while no update is in progress; with
\* the aggregator the call notes the samples of the updates that filled it
FlattenCall ==
    /\ r_pc = "stats"
    /\ c_call = None
    /\ c_call' = Some(LibCall("flatten", <<processes, st_updates>>))
    /\ c_ret' = Some(Flatten(processes))
    /\ UNCHANGED <<readerVars, varintVars, fed, writerVars, statsVars, st_copy, austinVars>>

NextFlatten ==
    \/ \E sample \in FlattenSamples : Update(sample)
    \/ FlattenCall

SpecFlatten == InitStats /\ [][NextFlatten]_vars

\* the places of the nodes update makes of FlattenSamples
FlattenPlaces ==
    {<<pid, thread, path>> :
        pid \in {1, 2}, thread \in {"T1", "T2"},
        path \in {<<>>} \cup {<<a>> : a \in {FrameF, FrameG}}
                 \cup {<<a, b>> : a \in {FrameF, FrameG}, b \in {FrameF, FrameG}}}

\* s is a proper prefix of t
IsProperPrefix(s, t) == Len(s) < Len(t) /\ SubSeq(t, 1, Len(s)) = s

\* C27: flatten yields, for every node whose own is not zero, exactly one
\* sample, with the node's pid and thread, its own as metric and the path
\* from the thread root as frames; it yields nothing else; and the sample of
\* a node comes before those of its descendants
FlattenYieldsNonzeroOwn ==
    c_ret # None =>
       LET procs == c_call[1].args[1]
           out   == c_ret[1]
           At(pl) == {i \in 1..Len(out) : /\ out[i].pid = pl[1]
                                          /\ out[i].thread = pl[2]
                                          /\ out[i].frames = pl[3]}
           Node(pl) == StatsNode(procs, pl[1], pl[2], pl[3])
       IN  /\ \A i \in 1..Len(out) :
                 <<out[i].pid, out[i].thread, out[i].frames>> \in FlattenPlaces
           /\ \A pl \in FlattenPlaces :
                 IF Node(pl) # None /\ Node(pl)[1].own.value # 0
                 THEN /\ Cardinality(At(pl)) = 1
                      /\ \A i \in At(pl) : out[i].metric = Node(pl)[1].own
                 ELSE At(pl) = {}
           /\ \A i, j \in 1..Len(out) :
                 (/\ out[i].pid = out[j].pid
                  /\ out[i].thread = out[j].thread
                  /\ IsProperPrefix(out[i].frames, out[j].frames)) => i < j

\* flatten has been called on a thread with own 1, a child f with own 2
\* that has a child g with own 1, and a child g with own 0: three samples
\* come out, the thread's first with no frames, and none for the child g
FlattenWitness ==
    /\ c_ret # None
    /\ DOMAIN c_call[1].args[1] = {1}
    /\ DOMAIN c_call[1].args[1][1].threads = {"T1"}
    /\ OwnAt(c_call[1].args[1][1].threads["T1"], <<>>) = 1
    /\ OwnAt(c_call[1].args[1][1].threads["T1"], <<FrameF>>) = 2
    /\ OwnAt(c_call[1].args[1][1].threads["T1"], <<FrameF, FrameG>>) = 1
    /\ GetChildPath(c_call[1].args[1][1].threads["T1"], <<FrameG>>) # None
    /\ Len(c_ret[1]) = 3
    /\ c_ret[1][1] = Sample(1, "T1", Metric("TIME", 1), <<>>)
    /\ c_ret[1][2] = Sample(1, "T1", Metric("TIME", 2), <<FrameF>>)
    /\ c_ret[1][3] = Sample(1, "T1", Metric("TIME", 1), <<FrameF, FrameG>>)

\* C28: update called on a fresh aggregator with the samples flatten
\* yielded, one after the other, gives an aggregator with the same nodes
\* and the same own and total at each; and flatten yields, for each
\* (pid, thread, frames) of the samples that filled the aggregator, one
\* sample whose metric is the sum of their metrics, and no other sample
FlattenUpdateRoundTrip ==
    c_ret # None =>
       LET procs == c_call[1].args[1]
           input == c_call[1].args[2]
           out   == c_ret[1]
           again == UpdateAll(EmptyMap, out)
           Place(s) == <<s.pid, s.thread, s.frames>>
           At(ss, pl) == {i \in 1..Len(ss) : Place(ss[i]) = pl}
           RECURSIVE SumAt(_, _)
           SumAt(ss, pl) ==
               IF ss = <<>> THEN 0
               ELSE (IF Place(Head(ss)) = pl THEN Head(ss).metric.value ELSE 0)
                    + SumAt(Tail(ss), pl)
       IN  /\ \A pl \in FlattenPlaces :
                 StatsNode(again, pl[1], pl[2], pl[3]) = StatsNode(procs, pl[1], pl[2], pl[3])
           /\ \A pl \in FlattenPlaces :
                 IF At(input, pl) # {}
                 THEN /\ Cardinality(At(out, pl)) = 1
                      /\ \A i \in At(out, pl) :
                            out[i].metric = Metric("TIME", SumAt(input, pl))
                 ELSE At(out, pl) = {}

-----------------------------------------------------------------------------
(* to_varint's encoding, and read_int on an encoding that is padded *)

MaxPad == 2

\* the encoding enc with k padding bytes: the continuation bit of the last
\* byte is set and k bytes without magnitude follow, the last of them
\* without continuation bit
Padded(enc, k) ==
    IF k = 0 THEN enc
    ELSE [i \in 1..(Len(enc) + k) |->
             IF i < Len(enc) THEN enc[i]
             ELSE IF i = Len(enc) THEN enc[i] + 128
             ELSE IF i < Len(enc) + k THEN 128 ELSE 0]

\* the reader is given to_varint(n) with k padding bytes
InitVarintPadded ==
    /\ c_call \in {Some(LibCall("read_int", <<n, k>>)) : n \in VarintInputs, k \in 0..MaxPad}
    /\ c_ret = None
    /\ st_copy = None
    /\ AustinIdle
    /\ vi_in = <<c_call[1].args[1]>>
    /\ vi_out = <<>>
    /\ ReaderInit(Padded(ToVarint(c_call[1].args[1]), c_call[1].args[2]))
    /\ r_pc = "varint"
    /\ fed = [header |-> <<>>, events |-> <<>>]
    /\ WriterInit
    /\ StatsInit

SpecVarintPadded == InitVarintPadded /\ [][NextVarint]_vars

\* C29: to_varint(n) is the shortest encoding: byte i has its continuation
\* bit set iff magnitude remains after it, so the last byte of an encoding
\* of several bytes carries magnitude; 0 is the byte 0x00; the length is 1,
\* 2, 3 for |n| below 2^6, 2^13, 2^20; and read_int returns n once it has
\* read to_varint(n) followed by any padding, neither earlier nor with an
\* error
VarintIsShortest ==
    LET n   == c_call[1].args[1]
        enc == ToVarint(n)
        Remains(i) == Abs(n) \div (2 ^ (6 + 7 * (i - 1)))
    IN  /\ \A i \in 1..Len(enc) : (enc[i] >= 128) <=> (Remains(i) # 0)
        /\ \A i \in 1..Len(enc) : enc[i] >= 128 <=> i < Len(enc)
        /\ Len(enc) > 1 => enc[Len(enc)] % 128 # 0
        /\ n = 0 => enc = <<0>>
        /\ Abs(n) < 2 ^ 6 => Len(enc) = 1
        /\ (Abs(n) >= 2 ^ 6 /\ Abs(n) < 2 ^ 13) => Len(enc) = 2
        /\ (Abs(n) >= 2 ^ 13 /\ Abs(n) < 2 ^ 20) => Len(enc) = 3
        /\ mojo = Padded(enc, c_call[1].args[2])
        /\ r_pc = "varint"
        /\ vi_out = IF mojo_pos = Len(mojo) THEN <<n>> ELSE <<>>

\* a negative integer of three bytes followed by two padding bytes has been
\* read back
VarintPaddedWitness ==
    /\ c_call[1].args = <<-(2 ^ 13), 2>>
    /\ mojo = <<192, 128, 129, 128, 0>>
    /\ mojo_pos = 5
    /\ vi_out = <<-(2 ^ 13)>>

-----------------------------------------------------------------------------
(* Metric.parse called on the metrics part of a sample line; a str is the
   sequence of its characters *)

Digits == <<"0", "1", "2", "3", "4", "5", "6", "7", "8", "9">>

RECURSIVE Split(_, _)
\* str.split(sep): the fields between the separators, at least one
Split(s, sep) ==
    IF \A i \in 1..Len(s) : s[i] # sep THEN <<s>>
    ELSE LET k == CHOOSE i \in 1..Len(s) :
                     s[i] = sep /\ \A j \in 1..(i - 1) : s[j] # sep
         IN  <<SubSeq(s, 1, k - 1)>> \o Split(SubSeq(s, k + 1, Len(s)), sep)

RECURSIVE Strip(_)
\* str.strip() of blanks
Strip(s) ==
    IF s = <<>> THEN s
    ELSE IF Head(s) = " " THEN Strip(Tail(s))
    ELSE IF s[Len(s)] = " " THEN Strip(SubSeq(s, 1, Len(s) - 1))
    ELSE s

RECURSIVE DigitsValue(_)
\* the number a sequence of decimal digits writes
DigitsValue(ds) ==
    IF ds = <<>> THEN 0
    ELSE 10 * DigitsValue(SubSeq(ds, 1, Len(ds) - 1))
         + (CHOOSE v \in 0..9 : Digits[v + 1] = ds[Len(ds)])

\* int(s) of a str: blanks around, a sign, decimal digits; ValueError for
\* anything else
ParseInt(s) ==
    LET t      == Strip(s)
        signed == t # <<>> /\ Head(t) \in {"-", "+"}
        ds     == IF signed THEN Tail(t) ELSE t
        isnum  == ds # <<>> /\ \A i \in 1..Len(ds) : \E v \in 1..10 : Digits[v] = ds[i]
    IN  IF ~isnum THEN [exc |-> "ValueError", val |-> 0]
        ELSE [exc |-> "",
              val |-> IF signed /\ Head(t) = "-" THEN -DigitsValue(ds) ELSE DigitsValue(ds)]

\* a faulty variant of MetricParse: the memory is not split by its sign
MetricParseUnsigned(metrics, metric_type) ==
    LET fields == Split(metrics, ",")
        ints   == [i \in 1..Len(fields) |-> ParseInt(fields[i])]
        ms     == [i \in 1..Len(fields) |-> ints[i].val]
    IN  IF \E i \in 1..Len(fields) : ints[i].exc # ""
        THEN [exc |-> "InvalidSample", val |-> <<>>]
        ELSE IF Len(ms) = 3
        THEN [exc |-> "",
              val |-> <<Metric("TIME", IF ms[2] = 0 THEN ms[1] ELSE 0),
                        Metric("TIME", ms[1]),
                        Metric("MEMORY", ms[3]),
                        Metric("MEMORY", 0)>>]
        ELSE IF Len(ms) # 1 THEN [exc |-> "InvalidSample", val |-> <<>>]
        ELSE IF metric_type = None THEN [exc |-> "AssertionError", val |-> <<>>]
        ELSE [exc |-> "", val |-> <<Metric(metric_type[1], ms[1])>>]

\* Metric.parse(metrics, metric_type): the list returned, or the exception
\* raised; metric_type is None or Some(type)
MetricParse(metrics, metric_type) ==
    LET fields == Split(metrics, ",")
        ints   == [i \in 1..Len(fields) |-> ParseInt(fields[i])]
        ms     == [i \in 1..Len(fields) |-> ints[i].val]
    IN  IF \E i \in 1..Len(fields) : ints[i].exc # ""
        THEN [exc |-> "InvalidSample", val |-> <<>>]
        ELSE IF Len(ms) = 3
        THEN [exc |-> "",
              val |-> <<Metric("TIME", IF ms[2] = 0 THEN ms[1] ELSE 0),
                        Metric("TIME", ms[1]),
                        Metric("MEMORY", IF ms[3] >= 0 THEN ms[3] ELSE 0),
                        Metric("MEMORY", IF ms[3] < 0 THEN -ms[3] ELSE 0)>>]
        ELSE IF Len(ms) # 1 THEN [exc |-> "InvalidSample", val |-> <<>>]
        ELSE IF metric_type = None THEN [exc |-> "AssertionError", val |-> <<>>]
        ELSE [exc |-> "", val |-> <<Metric(metric_type[1], ms[1])>>]

\* the fields tried, each with the integer it writes (None if it writes
\* none), and the number of fields of a line
MetricFields ==
    {[text |-> <<"0">>, int |-> Some(0)],
     [text |-> <<"1">>, int |-> Some(1)],
     [text |-> <<"1", "2">>, int |-> Some(12)],
     [text |-> <<"-", "3">>, int |-> Some(-3)],
     [text |-> <<"x">>, int |-> None],
     [text |-> <<>>, int |-> None]}

MaxMetricFields == 4

RECURSIVE Join(_, _)
\* sep.join(texts)
Join(texts, sep) ==
    IF texts = <<>> THEN <<>>
    ELSE IF Len(texts) = 1 THEN texts[1]
    ELSE texts[1] \o <<sep>> \o Join(Tail(texts), sep)

\* Metric.parse is about to be called on the fields joined by commas
InitMetricParse ==
    /\ StatsInit
    /\ ReaderInit(<<>>)
    /\ r_pc = "call"
    /\ fed = [header |-> <<>>, events |-> <<>>]
    /\ vi_in = <<>>
    /\ vi_out = <<>>
    /\ WriterInit
    /\ c_call \in {Some([op |-> "Metric.parse",
                         args |-> <<Join([i \in 1..Len(fs) |-> fs[i].text], ","), ty>>,
                         fields |-> fs]) :
                      fs \in UNION {[1..n -> MetricFields] : n \in 1..MaxMetricFields},
                      ty \in {None, Some("TIME"), Some("MEMORY")}}
    /\ c_ret = None
    /\ st_copy = None
    /\ AustinIdle

MetricParseCall ==
    /\ r_pc = "call"
    /\ c_call # None
    /\ c_ret = None
    /\ c_call[1].op = "Metric.parse"
    /\ c_ret' = Some(MetricParse(c_call[1].args[1], c_call[1].args[2]))
    /\ UNCHANGED <<readerVars, varintVars, fed, writerVars, statsVars, c_call, st_copy, austinVars>>

NextMetricParse == MetricParseCall

SpecMetricParse == InitMetricParse /\ [][NextMetricParse]_vars

\* C30: three fields t, idle, m that write integers give the metrics cpu,
\* wall, alloc, dealloc in this order, with cpu = t if idle = 0 else 0,
\* wall = t, alloc = m if m >= 0 else 0, dealloc = -m if m < 0 else 0,
\* hence alloc, dealloc >= 0, one of them 0, alloc - dealloc = m; a line
\* of two or of four or more fields raises InvalidSample
MetricParseSplitsMemory ==
    (c_ret # None /\ c_call[1].op = "Metric.parse") =>
       LET fs == c_call[1].fields
           r  == c_ret[1]
       IN  /\ (Len(fs) = 3 /\ \A i \in 1..3 : fs[i].int # None) =>
                 LET t    == fs[1].int[1]
                     idle == fs[2].int[1]
                     m    == fs[3].int[1]
                 IN  /\ r.exc = ""
                     /\ Len(r.val) = 4
                     /\ r.val[1] = Metric("TIME", IF idle = 0 THEN t ELSE 0)
                     /\ r.val[2] = Metric("TIME", t)
                     /\ r.val[3].type = "MEMORY"
                     /\ r.val[4].type = "MEMORY"
                     /\ r.val[3].value = (IF m >= 0 THEN m ELSE 0)
                     /\ r.val[4].value = (IF m < 0 THEN -m ELSE 0)
                     /\ r.val[3].value >= 0
                     /\ r.val[4].value >= 0
                     /\ r.val[3].value = 0 \/ r.val[4].value = 0
                     /\ r.val[3].value - r.val[4].value = m
           /\ Len(fs) \notin {1, 3} => (r.exc = "InvalidSample" /\ r.val = <<>>)

\* the line "12,1,-3" has been parsed: an idle sample that frees memory
MetricParseWitness ==
    /\ c_ret # None
    /\ c_call[1].op = "Metric.parse"
    /\ c_call[1].args[1] = <<"1", "2", ",", "1", ",", "-", "3">>
    /\ c_ret[1] = [exc |-> "",
                   val |-> <<Metric("TIME", 0), Metric("TIME", 12),
                             Metric("MEMORY", 0), Metric("MEMORY", 3)>>]

-----------------------------------------------------------------------------
(* SimpleAustin and AsyncAustin: start, then wait / _run, consuming the events
   that the reader on the standard output of the Austin process yields. The
   two classes take the same steps in the same order: AsyncAustin awaits its
   callbacks and runs _run in a task that start creates before it returns,
   SimpleAustin runs the loop of wait when the caller calls it *)

\* AustinState
NOT_STARTED == 0
STARTING == 1
RUNNING == 2
TERMINATING == 3
TERMINATED == 4

\* BaseAustin.MINIMUM_BINARY_VERSION
MINIMUM_BINARY_VERSION == <<4, 0, 0>>

\* the str "austin"
AustinKey == <<97, 117, 115, 116, 105, 110>>

\* a < b for two tuples of three integers
SemverLess(a, b) ==
    \/ a[1] < b[1]
    \/ a[1] = b[1] /\ a[2] < b[2]
    \/ a[1] = b[1] /\ a[2] = b[2] /\ a[3] < b[3]

RECURSIVE DecimalValue(_)
\* int(s) of a str of decimal digits
DecimalValue(ds) ==
    IF ds = <<>> THEN 0
    ELSE 10 * DecimalValue(SubSeq(ds, 1, Len(ds) - 1)) + (ds[Len(ds)] - 48)

\* _to_semver: "?" counts as "0", the leading digits and dots are split at the
\* dots, every field must be an integer, and three fields are kept, zeros
\* standing for the missing ones
ToSemver(version) ==
    IF version = None THEN [exc |-> "", val |-> <<0, 0, 0>>]
    ELSE LET v       == version[1]
             rep     == [i \in 1..Len(v) |-> IF v[i] = 63 THEN 48 ELSE v[i]]
             Ok(b)   == b \in 48..57 \/ b = 46
             n       == CHOOSE k \in 0..Len(rep) :
                            /\ \A i \in 1..k : Ok(rep[i])
                            /\ k = Len(rep) \/ ~Ok(rep[k + 1])
             parts   == Split(SubSeq(rep, 1, n), 46)
             nums    == [i \in 1..Len(parts) |-> DecimalValue(parts[i])] \o <<0, 0, 0>>
         IN  IF \E i \in 1..Len(parts) : parts[i] = <<>>
             THEN [exc |-> "ValueError", val |-> <<>>]
             ELSE [exc |-> "", val |-> SubSeq(nums, 1, 3)]

\* BaseAustin._check_version with BaseAustin.version: the exception raised,
\* "" if none (version is never None, _to_semver returns a tuple or raises)
CheckVersion(meta) ==
    LET v == ToSemver(IF AustinKey \in DOMAIN meta THEN Some(meta[AustinKey]) ELSE None)
    IN  IF v.exc # "" THEN v.exc
        ELSE IF SemverLess(v.val, MINIMUM_BINARY_VERSION) THEN "AustinError"
        ELSE ""

\* the headers the Austin process may write: nothing, a cut one, version 3
AustinHeaders == {<<>>, <<77, 79>>, MOJ \o <<3>>}

\* the events the Austin process may write: the austin metadata with a good,
\* an old and a malformed version, another metadata, a Stack, a byte that is
\* no tag
AustinRawEvents ==
    {[ev |-> "Metadata", arg |-> <<>>, bytes |-> MetadataBytes(AustinKey, ver)] :
        ver \in {<<52, 46, 48, 46, 48>>, <<51, 46, 57, 46, 63>>, <<52, 46>>}}
    \cup {[ev |-> "Metadata", arg |-> <<>>, bytes |-> MetadataBytes(<<109>>, <<119>>)],
          [ev |-> "Stack", arg |-> <<1, 7, <<116>>>>,
           bytes |-> RawStackBytes(3, 1, 7, <<116>>)],
          [ev |-> "unhandled", arg |-> <<>>, bytes |-> <<0>>]}

\* BaseAustin.__init__ of a SimpleAustin or an AsyncAustin with a sample
\* callback and any of the optional callbacks; the process has not started
InitAustin ==
    /\ fed \in {[header |-> h, events |-> <<>>] : h \in AustinHeaders}
    /\ ReaderInit(fed.header)
    /\ r_pc = "build"
    /\ vi_in = <<>>
    /\ vi_out = <<>>
    /\ WriterInit
    /\ CallerInit
    /\ StatsInit
    /\ a_state = NOT_STARTED
    /\ a_meta = EmptyMap
    /\ a_cbs \in SUBSET {"metadata", "terminate"}
    /\ a_pc = "new"
    /\ a_pos = 0
    /\ a_exc = ""
    /\ a_calls = <<>>
    /\ a_hist = <<>>
    /\ a_iters = <<>>

\* the exception exc leaves start or wait
AustinRaise(exc) == a_pc' = "raised" /\ a_exc' = exc

\* a callback is invoked for the event taken last, and raises or returns
CallbackCall(cb, raises) ==
    [cb |-> cb, state |-> a_state, pos |-> a_pos + 1, raised |-> raises]

\* SimpleAustin.start / AsyncAustin.start up to the for loop: the state is
\* STARTING, the process is spawned (AustinError if the binary is not found)
\* and a reader is created on its standard output and iterated
AustinStart(found) ==
    /\ a_pc = "new"
    /\ r_pc = "build"
    /\ a_state' = STARTING
    /\ a_hist' = Append(a_hist, STARTING)
    /\ IF found
       THEN /\ r_pc' = "new"
            /\ a_pc' = "start"
            /\ a_iters' = Append(a_iters, Len(yielded))
            /\ UNCHANGED a_exc
       ELSE /\ AustinRaise("AustinError")
            /\ UNCHANGED <<r_pc, a_iters>>
    /\ UNCHANGED <<mojo, mojo_pos, mojo_version, frame_map, string_map, offset,
                   last_read, running, metadata, samples, intr, strr,
                   r_err, yielded, y_pos, s_pos, run_pos, run_end, last_ev,
                   varintVars, callerVars, fed, writerVars, statsVars,
                   a_meta, a_cbs, a_pos, a_calls>>

\* the for loop of start or of wait / _run asks the iterator for its next
\* event: the reader parses the header if it has not, then one event
AustinPull ==
    /\ a_pc \in {"start", "run"}
    /\ a_pos = Len(yielded)
    /\ ParseHeader \/ ParseEvent

\* the body of the for loop of start for the next event: metadata is
\* recorded and passed to the metadata callback, and the austin metadata ends
\* the loop after _check_version; a sample is ignored. AsyncAustin.start then
\* creates the task that runs _run
AustinStartEvent(raises) ==
    /\ a_pc = "start"
    /\ a_pos < Len(yielded)
    /\ LET e    == yielded[a_pos + 1]
           meta == Put(a_meta, e.name, e.value)
       IN  /\ a_pos' = a_pos + 1
           /\ IF e.type # "Metadata"
              THEN /\ ~raises
                   /\ UNCHANGED <<a_meta, a_calls, a_pc, a_exc>>
              ELSE /\ a_meta' = meta
                   /\ a_calls' = IF "metadata" \in a_cbs
                                 THEN Append(a_calls, CallbackCall("metadata", raises))
                                 ELSE a_calls
                   /\ raises => "metadata" \in a_cbs
                   /\ IF raises THEN AustinRaise("AustinError")
                      ELSE IF e.name # AustinKey THEN UNCHANGED <<a_pc, a_exc>>
                      ELSE IF CheckVersion(meta) # "" THEN AustinRaise(CheckVersion(meta))
                      ELSE a_pc' = "started" /\ UNCHANGED a_exc
    /\ UNCHANGED <<readerVars, varintVars, callerVars, fed, writerVars, statsVars,
                   a_state, a_cbs, a_hist, a_iters>>

\* the for loop of start finds the iterator exhausted: its else clause
AustinStartExhausted ==
    /\ a_pc = "start"
    /\ a_pos = Len(yielded)
    /\ r_pc = "done"
    /\ AustinRaise("AustinError")
    /\ UNCHANGED <<readerVars, varintVars, callerVars, fed, writerVars, statsVars,
                   a_state, a_meta, a_cbs, a_pos, a_calls, a_hist, a_iters>>

\* the iterator raises in the for loop of start or of wait / _run: neither
\* catches it
AustinReaderError ==
    /\ a_pc \in {"start", "run"}
    /\ a_pos = Len(yielded)
    /\ r_pc = "error"
    /\ AustinRaise(r_err[1].exc)
    /\ UNCHANGED <<readerVars, varintVars, callerVars, fed, writerVars, statsVars,
                   a_state, a_meta, a_cbs, a_pos, a_calls, a_hist, a_iters>>

\* SimpleAustin.wait / AsyncAustin._run up to the for loop: the state is
\* RUNNING and the reader is iterated again
AustinRun ==
    /\ a_pc = "started"
    /\ a_state' = RUNNING
    /\ a_hist' = Append(a_hist, RUNNING)
    /\ a_pc' = "run"
    /\ a_iters' = Append(a_iters, Len(yielded))
    /\ UNCHANGED <<readerVars, varintVars, callerVars, fed, writerVars, statsVars,
                   a_meta, a_cbs, a_pos, a_exc, a_calls>>

\* the body of the for loop of wait / _run for the next event: a sample is
\* passed to the sample callback, metadata is recorded and passed to the
\* metadata callback; an exception of a callback becomes AustinError
AustinRunEvent(raises) ==
    /\ a_pc = "run"
    /\ a_pos < Len(yielded)
    /\ LET e      == yielded[a_pos + 1]
           cb     == IF e.type = "Sample" THEN "sample" ELSE "metadata"
           called == e.type = "Sample" \/ "metadata" \in a_cbs
       IN  /\ a_pos' = a_pos + 1
           /\ a_meta' = IF e.type = "Metadata" THEN Put(a_meta, e.name, e.value)
                                               ELSE a_meta
           /\ a_calls' = IF called THEN Append(a_calls, CallbackCall(cb, raises))
                                   ELSE a_calls
           /\ raises => called
           /\ IF raises THEN AustinRaise("AustinError") ELSE UNCHANGED <<a_pc, a_exc>>
    /\ UNCHANGED <<readerVars, varintVars, callerVars, fed, writerVars, statsVars,
                   a_state, a_cbs, a_hist, a_iters>>

\* a faulty variant of AustinTerminate: TERMINATED is set before the
\* terminate callback is invoked
AustinTerminateEarly(raises) ==
    /\ a_pc = "run"
    /\ a_pos = Len(yielded)
    /\ r_pc = "done"
    /\ raises => "terminate" \in a_cbs
    /\ a_calls' = IF "terminate" \in a_cbs
                  THEN Append(a_calls, [cb |-> "terminate", state |-> TERMINATED,
                                        pos |-> a_pos + 1, raised |-> raises])
                  ELSE a_calls
    /\ a_state' = TERMINATED
    /\ a_hist' = a_hist \o <<TERMINATING, TERMINATED>>
    /\ IF raises THEN AustinRaise("AustinError")
       ELSE a_pc' = "returned" /\ UNCHANGED a_exc
    /\ UNCHANGED <<readerVars, varintVars, callerVars, fed, writerVars, statsVars,
                   a_meta, a_cbs, a_pos, a_iters>>

\* the for loop of wait / _run finds the iterator exhausted: the state is
\* TERMINATING, the terminate callback is invoked (its exception becomes
\* AustinError), and the state is TERMINATED (in SimpleAustin.wait in the
\* finally clause of the wait for the process)
AustinTerminate(raises) ==
    /\ a_pc = "run"
    /\ a_pos = Len(yielded)
    /\ r_pc = "done"
    /\ raises => "terminate" \in a_cbs
    /\ a_calls' = IF "terminate" \in a_cbs
                  THEN Append(a_calls, [cb |-> "terminate", state |-> TERMINATING,
                                        pos |-> a_pos + 1, raised |-> raises])
                  ELSE a_calls
    /\ IF raises
       THEN /\ a_state' = TERMINATING
            /\ a_hist' = Append(a_hist, TERMINATING)
            /\ AustinRaise("AustinError")
       ELSE /\ a_state' = TERMINATED
            /\ a_hist' = a_hist \o <<TERMINATING, TERMINATED>>
            /\ a_pc' = "returned"
            /\ UNCHANGED a_exc
    /\ UNCHANGED <<readerVars, varintVars, callerVars, fed, writerVars, statsVars,
                   a_meta, a_cbs, a_pos, a_iters>>

NextAustin ==
    \/ \E e \in AustinRawEvents : FeedRaw(e)
    \/ \E found \in BOOLEAN : AustinStart(found)
    \/ AustinPull
    \/ \E raises \in BOOLEAN : AustinStartEvent(raises)
    \/ AustinStartExhausted
    \/ AustinReaderError
    \/ AustinRun
    \/ \E raises \in BOOLEAN : AustinRunEvent(raises)
    \/ \E raises \in BOOLEAN : AustinTerminate(raises)

SpecAustin == InitAustin /\ [][NextAustin]_vars

\* start has returned normally
StartReturned ==
    \/ a_pc \in {"started", "run", "returned"}
    \/ a_pc = "raised" /\ a_state >= RUNNING

\* the austin versions among those tried that are at least 4.0.0
GoodVersions == {<<52, 46, 48, 46, 48>>}

\* the i-th yielded event is an austin metadata event
IsAustinMetadata(i) ==
    yielded[i].type = "Metadata" /\ yielded[i].name = AustinKey

\* the first austin metadata event has been taken by start, none came before
\* it, its version is good and it ended the loop of start
AustinMetadataPassed ==
    /\ Len(a_iters) >= 2 => a_iters[2] >= 1
    /\ \E i \in 1..a_pos :
          /\ IsAustinMetadata(i)
          /\ \A j \in 1..(i - 1) : ~IsAustinMetadata(j)
          /\ yielded[i].value \in GoodVersions
          /\ Len(a_iters) >= 2 => a_iters[2] = i
          /\ a_pc = "started" => a_pos = i /\ a_meta[AustinKey] = yielded[i].value
    /\ AustinKey \in DOMAIN a_meta

\* the reader has come to the end of the output of the process while start
\* was iterating it, and start has seen no austin metadata event
StreamEndedInStart ==
    /\ a_pc = "raised"
    /\ a_state = STARTING
    /\ a_iters # <<>>
    /\ a_pos = Len(yielded)
    /\ \/ r_pc = "done"
       \/ r_pc = "error" /\ r_err[1].msg = "Expected bytes"
    /\ \A i \in 1..a_pos : ~IsAustinMetadata(i)

\* every sample callback was invoked by wait / _run, for an event taken after
\* start had returned
SampleCallbacksAfterStart ==
    \A k \in 1..Len(a_calls) :
        a_calls[k].cb = "sample" =>
            /\ a_calls[k].state = RUNNING
            /\ Len(a_iters) >= 2
            /\ a_calls[k].pos > a_iters[2]

\* C31: start returns normally only after an austin metadata event has been
\* decoded, recorded and has passed the minimum-version check; if the event
\* stream ends before such an event start raises AustinError; and no sample
\* callback is invoked before start has returned
StartContract ==
    /\ StartReturned => AustinMetadataPassed
    /\ StreamEndedInStart => a_exc = "AustinError"
    /\ ~StartReturned => \A k \in 1..Len(a_calls) : a_calls[k].cb # "sample"
    /\ SampleCallbacksAfterStart

\* does s start t
IsPrefixOf(s, t) == Len(s) <= Len(t) /\ s = SubSeq(t, 1, Len(s))

\* the invocations of the callback cb so far
CallsOf(cb) == {k \in 1..Len(a_calls) : a_calls[k].cb = cb}

\* C39: in a run of wait / _run the state goes RUNNING, TERMINATING,
\* TERMINATED in that order; the terminate callback is invoked exactly once,
\* in state TERMINATING, only after the event stream is exhausted and every
\* sample and metadata callback has returned; and if a sample or metadata
\* callback raises, the run ends with AustinError, the terminate callback is
\* not invoked and TERMINATED is not reached
RunContract ==
    /\ IsPrefixOf(a_hist, <<STARTING, RUNNING, TERMINATING, TERMINATED>>)
    /\ a_state = IF a_hist = <<>> THEN NOT_STARTED ELSE a_hist[Len(a_hist)]
    /\ \A k \in CallsOf("terminate") :
          /\ CallsOf("terminate") = {k}
          /\ k = Len(a_calls)
          /\ a_calls[k].state = TERMINATING
          /\ r_pc = "done"
          /\ a_pos = Len(yielded)
          /\ \A j \in 1..(k - 1) : ~a_calls[j].raised
    /\ a_state >= TERMINATING /\ "terminate" \in a_cbs => CallsOf("terminate") # {}
    /\ a_state = TERMINATED =>
          /\ a_pc = "returned"
          /\ \A k \in 1..Len(a_calls) : ~a_calls[k].raised
          /\ \A i \in (a_iters[2] + 1)..Len(yielded) :
                yielded[i].type = "Sample" =>
                    \E k \in CallsOf("sample") : a_calls[k].pos = i
    /\ a_pc = "returned" => a_state = TERMINATED
    /\ \A k \in CallsOf("sample") \cup CallsOf("metadata") :
          a_calls[k].raised /\ a_calls[k].state = RUNNING =>
              /\ k = Len(a_calls)
              /\ a_pc = "raised"
              /\ a_exc = "AustinError"
              /\ a_state = RUNNING
              /\ CallsOf("terminate") = {}

\* a run has returned after a sample callback, a metadata callback and the
\* terminate callback
RunWitness ==
    /\ a_pc = "returned"
    /\ a_hist = <<STARTING, RUNNING, TERMINATING, TERMINATED>>
    /\ \E k \in CallsOf("sample") : a_calls[k].state = RUNNING
    /\ \E k \in CallsOf("metadata") : a_calls[k].state = RUNNING
    /\ CallsOf("terminate") # {}

-----------------------------------------------------------------------------
(* one MojoStreamReader iterated several times: an iteration is abandoned
   after any of its events and the next one goes on from where the reader
   stands, as the loops of SimpleAustin.start and SimpleAustin.wait do *)

MaxIterations == 3

\* the events of the sources iterated: two Stacks, a metadata, a metric, an
\* idle flag
IterEvents ==
    {[ev |-> "Stack", arg |-> <<pid, 7, <<116>>>>,
      bytes |-> RawStackBytes(3, pid, 7, <<116>>)] : pid \in {1, 2}}
    \cup {[ev |-> "Metadata", arg |-> <<>>, bytes |-> MetadataBytes(<<109>>, <<119>>)],
          [ev |-> "Metric", arg |-> <<>>, bytes |-> MetricBytes("time", 5)],
          [ev |-> "Idle", arg |-> <<>>, bytes |-> <<IDLE>>]}

InitIter ==
    /\ fed = [header |-> MOJ \o <<3>>, events |-> <<>>]
    /\ ReaderInit(fed.header)
    /\ r_pc = "build"
    /\ vi_in = <<>>
    /\ vi_out = <<>>
    /\ WriterInit
    /\ CallerInit
    /\ StatsInit
    /\ AustinIdle

\* MojoStreamReader.__iter__ called on the reader: the first call starts
\* parse with the header check; a later call, after the consumer has left
\* the previous iteration at one of its events or has seen it end, starts
\* parse anew, which skips the header because mojo_version is set and reads
\* the next event from where the reader stands
IterAgain ==
    /\ Len(a_iters) < MaxIterations
    /\ \/ r_pc = "build" /\ r_pc' = "new"
       \/ r_pc \in {"events", "done"} /\ r_pc' = "events"
    /\ a_iters' = Append(a_iters, Len(yielded))
    /\ UNCHANGED <<mojo, mojo_pos, mojo_version, frame_map, string_map, offset,
                   last_read, running, metadata, samples, intr, strr,
                   r_err, yielded, y_pos, s_pos, run_pos, run_end, last_ev,
                   varintVars, callerVars, fed, writerVars, statsVars,
                   a_state, a_meta, a_cbs, a_pc, a_pos, a_exc, a_calls, a_hist>>

NextIter ==
    \/ \E e \in IterEvents : FeedRaw(e)
    \/ IterAgain
    \/ ParseHeader
    \/ ParseEvent

SpecIter == InitIter /\ [][NextIter]_vars

\* the indices of the samples among the yielded events
YieldedSampleAt == {i \in 1..Len(yielded) : yielded[i].type = "Sample"}

\* the indices of the Stack events of the source
StackAt == {i \in 1..Len(fed.events) : fed.events[i].ev = "Stack"}

\* C33: across successive iterations of one reader over one stream every
\* Stack event produces exactly one yielded sample, in Stack order, no sample
\* is yielded twice or dropped, and the yielded samples are exactly the
\* entries of reader.samples
IterationsYieldEachSampleOnce ==
    LET ys == SelectSeq(yielded, LAMBDA e : e.type = "Sample")
        yp == [k \in 1..Len(ys) |->
                  y_pos[CHOOSE i \in YieldedSampleAt :
                            Cardinality({j \in YieldedSampleAt : j <= i}) = k]]
        st == SelectSeq(fed.events, LAMBDA e : e.ev = "Stack")
        read == Cardinality({i \in StackAt : fed.events[i].at < mojo_pos})
    IN  /\ ys = samples
        /\ \A k \in 1..Len(ys) :
              /\ k <= Len(st)
              /\ ys[k].pid = st[k].arg[1]
              /\ yp[k].at = st[k].at
        /\ r_pc \in {"events", "done"} =>
              Len(ys) + (IF running # None THEN 1 ELSE 0) = read
        /\ r_pc = "done" => Len(ys) = Len(st) /\ running = None

\* three Stacks read in three iterations: the first left after its first
\* sample, the third started after the second had ended
IterationsWitness ==
    /\ r_pc = "done"
    /\ Cardinality(StackAt) = 3
    /\ Len(samples) = 3
    /\ a_iters = <<0, 1, 3>>
    /\ last_ev.ev = "eof"
    /\ last_ev.at = Len(mojo)

-----------------------------------------------------------------------------
(* AsyncMojoStreamReader on an asyncio.StreamReader that is fed the bytes of a
   source in chunks, after MojoStreamReader has read the same source *)

\* the events of the sources read: a metadata with two strings, a Stack, a
\* time metric whose varint takes two bytes, a string definition
AsyncEvents ==
    {[ev |-> "Metadata", arg |-> <<>>, bytes |-> MetadataBytes(<<109, 111>>, <<119>>)],
     [ev |-> "Stack", arg |-> <<1, 7, <<116>>>>,
      bytes |-> RawStackBytes(3, 1, 7, <<116>>)],
     [ev |-> "Metric", arg |-> <<>>, bytes |-> MetricBytes("time", 100)],
     [ev |-> "String", arg |-> <<>>,
      bytes |-> <<STRING_DEF>> \o ToVarint(2) \o StrBytes(<<97, 98>>)]}

\* the source is built and first read by a MojoStreamReader; nothing has
\* been fed to the asynchronous source
InitAsync ==
    /\ fed = [header |-> MOJ \o <<3>>, events |-> <<>>, async |-> FALSE,
              arrived |-> 0, eof |-> FALSE]
    /\ ReaderInit(fed.header)
    /\ r_pc = "build"
    /\ vi_in = <<>>
    /\ vi_out = <<>>
    /\ WriterInit
    /\ CallerInit
    /\ StatsInit
    /\ AustinIdle

\* what the iteration of a reader gave: the events yielded, the metadata map,
\* the samples list and the exception that ended it, if any
ReaderOutcome ==
    [events |-> yielded, metadata |-> metadata, samples |-> samples,
     exc |-> IF r_pc = "error" THEN r_err[1].exc ELSE ""]

\* the iteration of the MojoStreamReader is over and its outcome is kept; an
\* AsyncMojoStreamReader is created on a stream of the same bytes
AsyncOpen ==
    /\ ~fed.async
    /\ r_pc \in {"done", "error"}
    /\ c_ret' = Some(ReaderOutcome)
    /\ fed' = [fed EXCEPT !.async = TRUE]
    /\ mojo_pos' = 0
    /\ mojo_version' = None
    /\ frame_map' = EmptyMap
    /\ string_map' = EmptyMap
    /\ offset' = 0
    /\ last_read' = 0
    /\ running' = None
    /\ metadata' = EmptyMap
    /\ samples' = <<>>
    /\ intr' = IntReaderFresh
    /\ strr' = StrReaderFresh
    /\ r_pc' = "new"
    /\ r_err' = None
    /\ yielded' = <<>>
    /\ y_pos' = <<>>
    /\ s_pos' = <<>>
    /\ run_pos' = 0
    /\ run_end' = 0
    /\ last_ev' = [ev |-> "none", tag |-> -1, at |-> -1, exc |-> "", key |-> None,
                   res |-> None]
    /\ UNCHANGED <<mojo, varintVars, c_call, st_copy, austinVars, writerVars, statsVars>>

\* asyncio.StreamReader.feed_data: the next chunk of the source, of any
\* length, arrives in the buffer of the stream
FeedData(k) ==
    /\ fed.async
    /\ ~fed.eof
    /\ k \in 1..(Len(mojo) - fed.arrived)
    /\ fed' = [fed EXCEPT !.arrived = @ + k]
    /\ UNCHANGED <<readerVars, varintVars, callerVars, austinVars, writerVars, statsVars>>

\* asyncio.StreamReader.feed_eof: the whole source has arrived
FeedEof ==
    /\ fed.async
    /\ ~fed.eof
    /\ fed.arrived = Len(mojo)
    /\ fed' = [fed EXCEPT !.eof = TRUE]
    /\ UNCHANGED <<readerVars, varintVars, callerVars, austinVars, writerVars, statsVars>>

\* AsyncMojoStreamReader.read(n) = _read(await mojo.read(n), n) once the
\* stream has data or is at its end: StreamReader.read(n) returns the bytes
\* of its buffer, at most n, so fewer than n when fewer have arrived, and
\* _read raises ValueError for them
AsyncReadN(c, n) ==
    LET avail == Min(n, fed.arrived - c.pos)
    IN  IF avail # n
        THEN [c EXCEPT !.pos = @ + avail, !.exc = "ValueError"]
        ELSE [c EXCEPT !.pos = @ + n, !.offset = @ + c.last_read, !.last_read = n]

\* AsyncMojoStreamReader.parse, the header check: read(3) is awaited as soon
\* as the stream has data, then the version is read byte by byte, each read
\* waiting for its byte
AsyncParseHeader ==
    /\ fed.async
    /\ r_pc = "new"
    /\ mojo_version = None
    /\ fed.arrived > 0 \/ fed.eof
    /\ LET c1 == AsyncReadN(Cur, 3)
           rv == ReadInt(c1)
       IN  /\ c1.exc = "" => rv.c.pos <= fed.arrived \/ fed.eof
           /\ IF c1.exc # ""
              THEN /\ Commit([Rd EXCEPT !.c = c1])
                   /\ Fail(PlainError("Expected bytes", c1))
                   /\ UNCHANGED mojo_version
              ELSE IF Got(Cur, 3) # MOJ
              THEN /\ Commit([Rd EXCEPT !.c = c1])
                   /\ Fail(PlainError("Not a MOJO stream", c1))
                   /\ UNCHANGED mojo_version
              ELSE IF rv.c.exc # ""
              THEN /\ Commit([Rd EXCEPT !.c = rv.c])
                   /\ Fail(PlainError("Expected bytes", rv.c))
                   /\ UNCHANGED mojo_version
              ELSE /\ Commit([Rd EXCEPT !.c = rv.c])
                   /\ mojo_version' = rv.val
                   /\ r_pc' = "events"
                   /\ UNCHANGED r_err
    /\ UNCHANGED <<mojo, yielded, y_pos, last_ev, varintVars, callerVars, austinVars,
                   fed, writerVars, statsVars>>

\* One turn of the loops of AsyncMojoStreamReader.parse and __aiter__: every
\* read of parse_event and of its handler is read(1), which waits until the
\* stream has a byte or is at its end and then gives what the synchronous
\* read gives, so the turn is that of MojoStreamReader once the bytes it
\* takes have arrived
AsyncParseEvent ==
    /\ fed.async
    /\ LET Arrived(r) == \/ fed.eof
                         \/ r.c.pos <= fed.arrived /\ r.ev # "eof" /\ r.exc = ""
       IN  Arrived(ParseEventResult(Rd))
    /\ ParseEvent

NextAsync ==
    \/ \E e \in AsyncEvents : FeedRaw(e)
    \/ ReaderOpen
    \/ ~fed.async /\ ParseHeader
    \/ ~fed.async /\ ParseEvent
    \/ AsyncOpen
    \/ \E k \in 1..Len(mojo) : FeedData(k)
    \/ FeedEof
    \/ AsyncParseHeader
    \/ AsyncParseEvent

SpecAsync == InitAsync /\ [][NextAsync]_vars

\* C32: for the same byte stream AsyncMojoStreamReader yields the same
\* sequence of events and ends with the same metadata map and samples list
\* as MojoStreamReader, however the asynchronous source splits the bytes into
\* chunks, a split inside the header, a varint or a string included
AsyncReaderEquivalent ==
    fed.async =>
        /\ IsPrefixOf(yielded, c_ret[1].events)
        /\ r_pc \in {"done", "error"} => ReaderOutcome = c_ret[1]

-----------------------------------------------------------------------------
(* events that need a running sample, read before the first Stack *)

\* the events whose handler works on the running sample or on its pid
NeedsSample == {"String", "StringRef", "Frame", "FrameRef", "Metric", "GC", "Idle"}

\* the i-th event of the source comes before its first Stack
BeforeFirstStack(i) == \A j \in 1..i : fed.events[j].ev # "Stack"

\* the reader has read the tag of the i-th event of the source
EventRead(i) ==
    /\ ValidHeader(fed.header)
    /\ r_pc \in {"events", "done", "error"}
    /\ mojo_pos > fed.events[i].at

\* C35: a String, String-Reference, Frame, Frame-Reference, metric, GC or
\* idle event before the first Stack makes the decode fail: it is not
\* attributed to a later sample nor registered under a default pid, and the
\* interning tables and the samples list stay empty
EventBeforeFirstStackFails ==
    \A i \in 1..Len(fed.events) :
        fed.events[i].ev \in NeedsSample /\ BeforeFirstStack(i) /\ EventRead(i) =>
            /\ r_pc = "error"
            /\ r_err[1].exc = "MojoParseError"
            /\ last_ev.at = fed.events[i].at
            /\ mojo_pos <= fed.events[i].end
            /\ string_map = EmptyMap
            /\ frame_map = EmptyMap
            /\ samples = <<>>
            /\ running = None
            /\ \A k \in 1..Len(yielded) : yielded[k].type # "Sample"

\* a metadata event, then a frame of unknown file and scope, then a Stack:
\* the decode has failed at the frame
EventBeforeFirstStackWitness ==
    /\ Len(fed.events) = 3
    /\ fed.events[1].ev = "Metadata"
    /\ fed.events[2].ev = "Frame"
    /\ fed.events[2].arg = <<0, 1>>
    /\ fed.events[3].ev = "Stack"
    /\ r_pc = "error"
    /\ last_ev.at = fed.events[2].at
    /\ Len(yielded) = 1

-----------------------------------------------------------------------------
(* samples with frame references, kernel frames and invalid frames *)

\* the events tried after a first Stack: Stacks, two frames of unknown file
\* and scope with keys 0 and 1 and lines 10 and 20, references to them,
\* kernel and invalid frames; arg of a frame holds its key and line
FrameEvents ==
    {[ev |-> "Stack", arg |-> <<1, 7, <<116>>>>,
      bytes |-> RawStackBytes(3, 1, 7, <<116>>)]}
    \cup {[ev |-> "Frame", arg |-> <<a[1], a[2]>>,
           bytes |-> RawFrameBytes(3, a[1], 1, 1, a[2])] : a \in {<<0, 10>>, <<1, 20>>}}
    \cup {[ev |-> "FrameRef", arg |-> <<k>>, bytes |-> <<FRAME_REF>> \o ToVarint(k)] :
          k \in {0, 1}}
    \cup {[ev |-> "KernelFrame", arg |-> <<>>,
           bytes |-> <<FRAME_KERNEL>> \o StrBytes(<<107>>)],
          [ev |-> "InvalidFrame", arg |-> <<>>, bytes |-> <<FRAME_INVALID>>]}

NextFrames ==
    \/ \E e \in FrameEvents : FeedKey(e)
    \/ ReaderOpen
    \/ ParseHeader
    \/ ParseEvent

SpecFrames == InitKeys /\ [][NextFrames]_vars

\* the index in the source of its k-th Stack event
StackIndex(k) ==
    CHOOSE i \in StackAt : Cardinality({j \in StackAt : j <= i}) = k

\* the Frame-Reference events between the k-th Stack and the next one, or the
\* end of what the reader has read
RefsOfSample(k) ==
    LET last == IF k < Cardinality(StackAt) THEN StackIndex(k + 1) - 1
                ELSE Len(fed.events)
    IN  SelectSeq(SubSeq(fed.events, StackIndex(k) + 1, last),
                  LAMBDA e : e.ev = "FrameRef" /\ e.at < mojo_pos)

\* the line of the frame that the Frame-Reference event ref names: that of the
\* last Frame event before it with its key
LineNamedBy(ref) ==
    LET frames == {i \in 1..Len(fed.events) :
                      /\ fed.events[i].ev = "Frame"
                      /\ fed.events[i].arg[1] = ref.arg[1]
                      /\ fed.events[i].at < ref.at}
    IN  fed.events[CHOOSE i \in frames : \A j \in frames : j <= i].arg[2]

\* the frames (a sequence) are those that the Frame-Reference events refs name
FramesAreRefs(frames, refs) ==
    /\ Len(frames) = Len(refs)
    /\ \A j \in 1..Len(refs) : frames[j].line = LineNamedBy(refs[j])

\* the step reads a kernel-frame or an invalid-frame event
ReadsSpecialFrame ==
    /\ r_pc = "events"
    /\ mojo_pos < Len(mojo)
    /\ mojo[mojo_pos + 1] \in {FRAME_KERNEL, FRAME_INVALID}

\* C36: kernel-frame and invalid-frame events are consumed and returned as
\* raw events but leave the running sample unchanged, and the frames of a
\* finalized sample are exactly those named by its Frame-Reference events, in
\* stream order
SpecialFramesLeaveSample ==
    /\ [][ReadsSpecialFrame =>
             /\ r_pc' = "events"
             /\ last_ev'.ev = (IF mojo[mojo_pos + 1] = FRAME_KERNEL
                               THEN "KernelFrame" ELSE "InvalidFrame")
             /\ last_ev'.exc = ""
             /\ mojo_pos' = mojo_pos + (IF mojo[mojo_pos + 1] = FRAME_KERNEL THEN 3 ELSE 1)
             /\ UNCHANGED <<running, samples, frame_map, string_map, metadata, yielded>>]_vars
    /\ [](\A k \in 1..Len(samples) :
             IF RefsOfSample(k) = <<>> THEN samples[k].frames = None
             ELSE /\ samples[k].frames # None
                  /\ FramesAreRefs(samples[k].frames[1], RefsOfSample(k)))
    /\ [](running # None /\ r_pc = "events" =>
             FramesAreRefs(running[1].frames, RefsOfSample(Len(samples) + 1)))

\* a sample with references to two frames, a kernel frame between them, has
\* been finalized at the end of the source
SpecialFramesWitness ==
    /\ Len(fed.events) = 5
    /\ fed.events[2].ev = "Frame"
    /\ fed.events[3].ev = "FrameRef"
    /\ fed.events[4].ev = "KernelFrame"
    /\ fed.events[5].ev = "FrameRef"
    /\ r_pc = "done"
    /\ Len(samples) = 1
    /\ Len(samples[1].frames[1]) = 2

-----------------------------------------------------------------------------
(* the keys that the writer gives to strings and frames *)

RECURSIVE FirstAppearances(_, _)
\* the elements of a sequence in the order of their first appearance, after
\* those of acc
FirstAppearances(s, acc) ==
    IF s = <<>> THEN acc
    ELSE IF \E i \in 1..Len(acc) : acc[i] = Head(s)
    THEN FirstAppearances(Tail(s), acc)
    ELSE FirstAppearances(Tail(s), Append(acc, Head(s)))

RECURSIVE FrameSeqWritten(_)
\* the frames of the samples among the events, in the order written
FrameSeqWritten(events) ==
    IF events = <<>> THEN <<>>
    ELSE (IF Head(events).type = "Sample" THEN FramesOf(Head(events)) ELSE <<>>)
         \o FrameSeqWritten(Tail(events))

RECURSIVE StringsOfFrames(_)
\* the file name and the function of each frame, in order
StringsOfFrames(frames) ==
    IF frames = <<>> THEN <<>>
    ELSE <<Head(frames).filename, Head(frames).function>> \o StringsOfFrames(Tail(frames))

\* the distinct frames written so far, in the order of their first appearance
FramesInOrder == FirstAppearances(FrameSeqWritten(written), <<>>)

\* the distinct strings of those frames but "" and "<unknown>", in the order
\* of their first appearance
StringsInOrder ==
    SelectSeq(FirstAppearances(StringsOfFrames(FramesInOrder), <<>>),
              LAMBDA v : v \notin {EMPTY.value, UNKNOWN.value})

\* C37: the keys the writer assigns are unique and sequential: new strings
\* get 2, 3, 4, ... in the order of their first appearance, never 0 or 1, new
\* frames get 0, 1, 2, ..., and no two distinct strings or frames share a key
WriterKeysSequential ==
    /\ DOMAIN w_strings =
          {EMPTY.value, UNKNOWN.value} \cup {StringsInOrder[k] : k \in 1..Len(StringsInOrder)}
    /\ w_strings[EMPTY.value] = EMPTY
    /\ w_strings[UNKNOWN.value] = UNKNOWN
    /\ \A k \in 1..Len(StringsInOrder) :
          w_strings[StringsInOrder[k]] = [key |-> k + 1, value |-> StringsInOrder[k]]
    /\ \A u, v \in DOMAIN w_strings : u # v => w_strings[u].key # w_strings[v].key
    /\ DOMAIN w_frames = {FramesInOrder[k] : k \in 1..Len(FramesInOrder)}
    /\ \A k \in 1..Len(FramesInOrder) : w_frames[FramesInOrder[k]].key = k - 1
    /\ \A f, g \in DOMAIN w_frames : f # g => w_frames[f].key # w_frames[g].key

\* four frames over three new strings have been written, the frame of empty
\* file name first: its function has key 2
WriterKeysWitness ==
    /\ Len(FramesInOrder) = 4
    /\ FramesInOrder[1] = FrameE
    /\ FramesInOrder[2] = FrameB
    /\ StringsInOrder = <<<<102>>, <<97>>, <<103>>>>
    /\ w_strings[<<103>>].key = 4
    /\ w_frames[FrameN].key = 3

-----------------------------------------------------------------------------
(* the order of the update calls *)

\* the orderings of the samples of a sequence
Orderings(ss) ==
    LET n == Len(ss)
    IN  {[i \in 1..n |-> ss[f[i]]] :
            f \in {g \in [1..n -> 1..n] : \A i, j \in 1..n : i # j => g[i] # g[j]}}

\* C34: the aggregator state after updating with a multiset of samples does
\* not depend on the order of the updates: any two orderings give the same
\* processes, threads and nodes with equal own and total at every node
UpdateOrderIndependent ==
    \A ss \in Orderings(st_updates) : UpdateAll(EmptyMap, ss) = processes

-----------------------------------------------------------------------------
(* read_string on strings that fill str_reader's buffer *)

MaxStrings == 2

\* a string of n letters, no two neighbours equal
StrFill(n) == [i \in 1..n |-> 97 + (i % 26)]

\* the lengths tried: empty, one byte, the buffer's size, one byte more
StrLens == {0, 1, StrBufLen, StrBufLen + 1}

\* the sources: one to MaxStrings strings, each followed by its terminator
StrInputs ==
    UNION {[1..n -> {StrFill(l) : l \in StrLens}] : n \in 1..MaxStrings}

InitStr ==
    /\ vi_in \in StrInputs
    /\ vi_out = <<>>
    /\ ReaderInit(Concat([j \in 1..Len(vi_in) |-> StrBytes(vi_in[j])]))
    /\ r_pc = "string"
    /\ fed = [header |-> <<>>, events |-> <<>>]
    /\ WriterInit
    /\ CallerInit
    /\ AustinIdle
    /\ StatsInit

\* one turn of the loop of MojoStreamReader.read_string: a byte is read and
\* sent to str_reader, and read_string returns when str_reader yields a
\* string; the IndexError of str_reader leaves read_string
ReadStringStep ==
    /\ r_pc = "string"
    /\ Len(vi_out) < Len(vi_in)
    /\ LET c1 == ReadN(Cur, 1)
           r  == StrReaderSend(c1.strr, mojo[c1.pos])
       IN  IF c1.exc # ""
           THEN /\ Commit([Rd EXCEPT !.c = c1])
                /\ Fail(PlainError("Expected bytes", c1))
                /\ UNCHANGED vi_out
           ELSE /\ Commit([Rd EXCEPT !.c = [c1 EXCEPT !.strr = r.st]])
                /\ vi_out' = IF r.out # None THEN Append(vi_out, r.out[1]) ELSE vi_out
                /\ IF r.exc # ""
                   THEN Fail([exc |-> r.exc, msg |-> "", cause |-> "", event_id |-> 0,
                              offset |-> c1.offset, last_read |-> c1.last_read])
                   ELSE UNCHANGED <<r_pc, r_err>>
    /\ UNCHANGED <<mojo, mojo_version, yielded, y_pos, last_ev, vi_in, callerVars, austinVars, fed, writerVars, statsVars>>

NextStr == ReadStringStep

SpecStr == InitStr /\ [][NextStr]_vars

RECURSIVE StrStart(_)
\* the position in the source of the first byte of string j
StrStart(j) == IF j = 1 THEN 0 ELSE StrStart(j - 1) + Len(vi_in[j - 1]) + 1

====
